---- MODULE Spec2Model ----
(***************************************************************************)
(* Ticket scanner: the session-scoped file store, the orientation          *)
(* corrector, the extraction engine and the ticket review component.       *)
(*                                                                         *)
(* A JavaScript string is a sequence of one-character strings, so that     *)
(* basename, extname, replace, split, parseInt and the sanitising regular  *)
(* expression are computed character by character as the code does.        *)
(* A filesystem path is the sequence of its segments from "/", as          *)
(* path.join leaves it after normalisation.                                *)
(***************************************************************************)
EXTENDS Integers, Sequences, FiniteSets, TLC

VARIABLES
    apiKey,         \* process.env.OPENROUTER_API_KEY is set
    dirs,           \* the directories that exist (paths)
    files,          \* the regular files that exist: path -> bytes
    resp,           \* the response of the last request
    writes,         \* the writeFileSync calls of the last request, in order
    calls,          \* the calls to the model and to sharp of the last request
    editedTickets,  \* TicketReview: the editedTickets state
    currentIndex,   \* TicketReview: the currentIndex state
    now,            \* the server's clock, in seconds since the epoch
    created,        \* the sessionIds POST /api/sessions has answered, in order
    handlers,       \* the upload handlers started, suspended or answered, in order
    loop,           \* the extract-batch or orient-all request being served
    uploadedFiles,  \* FileUpload: the uploadedFiles state
    promises,       \* FileUpload: the promises its callbacks wait for
    served          \* FileUpload: the files the server has stored for it

\* the state of the FileUpload component
client == <<uploadedFiles, promises, served>>

\* the clock, the history of the answers of create, the handlers in flight
\* and the component
later == <<now, created, handlers, loop, client>>

vars == <<apiKey, dirs, files, resp, writes, calls, editedTickets, currentIndex,
          later>>

\* the clock at the epoch, nothing answered yet
NoLoop == [op |-> "none", req |-> <<>>, items |-> <<>>, acc |-> <<>>, done |-> 0,
           inflight |-> {}]

Quiet ==
    /\ now = 0 /\ created = <<>> /\ handlers = <<>> /\ loop = NoLoop
    /\ uploadedFiles = <<>> /\ promises = {} /\ served = 0

----------------------------------------------------------------------------
(* Bounds of the model *)

MaxFiles == 3       \* regular files in the store

----------------------------------------------------------------------------
(* String primitives *)

Min(S) == CHOOSE x \in S : \A y \in S : x <= y
Max(S) == CHOOSE x \in S : \A y \in S : x >= y

\* String.prototype.substring(0, n)
substring(s, n) == SubSeq(s, 1, IF n < Len(s) THEN n ELSE Len(s))

\* String.prototype.startsWith
startsWith(s, p) == Len(p) <= Len(s) /\ SubSeq(s, 1, Len(p)) = p

\* String.prototype.endsWith
endsWith(s, p) == Len(p) <= Len(s) /\ SubSeq(s, Len(s) - Len(p) + 1, Len(s)) = p

\* String.prototype.indexOf, 1-based; 0 when p does not occur
indexOf(s, p) ==
    LET hits == {i \in 1..(Len(s) - Len(p) + 1) :
                    s[i] = p[1] /\ SubSeq(s, i, i + Len(p) - 1) = p}
    IN IF hits = {} THEN 0 ELSE Min(hits)

\* String.prototype.includes
includes(s, p) == indexOf(s, p) > 0

\* String.prototype.replace(p, r) with a string pattern: the first occurrence
replaceAt(s, i, n, r) ==
    IF i = 0 THEN s ELSE SubSeq(s, 1, i - 1) \o r \o SubSeq(s, i + n, Len(s))

replace(s, p, r) == replaceAt(s, indexOf(s, p), Len(p), r)

\* the positions of the character c in s
positions(s, c) == {i \in 1..Len(s) : s[i] = c}

\* the pieces of s between the separator positions seps, from position from on
RECURSIVE pieces(_, _, _)
pieces(s, seps, from) ==
    IF seps = {} THEN <<SubSeq(s, from, Len(s))>>
    ELSE <<SubSeq(s, from, Min(seps) - 1)>> \o pieces(s, seps \ {Min(seps)}, Min(seps) + 1)

\* String.prototype.split(c) on a one-character separator
split(s, c) == pieces(s, positions(s, c), 1)

\* s.split(c).pop(): what follows the last c, or the whole of s
afterLast(s, seps) == IF seps = {} THEN s ELSE SubSeq(s, Max(seps) + 1, Len(s))

UpperCase == <<"A","B","C","D","E","F","G","H","I","J","K","L","M",
               "N","O","P","Q","R","S","T","U","V","W","X","Y","Z">>
LowerCase == <<"a","b","c","d","e","f","g","h","i","j","k","l","m",
               "n","o","p","q","r","s","t","u","v","w","x","y","z">>
DigitChars == <<"0","1","2","3","4","5","6","7","8","9">>

Range(f) == {f[i] : i \in DOMAIN f}
UpperChars == Range(UpperCase)
Digits == Range(DigitChars)

\* String.prototype.toLowerCase
toLowerCase(s) ==
    [i \in 1..Len(s) |->
        IF s[i] \in UpperChars
        THEN LowerCase[CHOOSE k \in 1..Len(UpperCase) : UpperCase[k] = s[i]]
        ELSE s[i]]

\* the decimal digits of a number inside a template literal: `${counter}`
RECURSIVE toString(_)
toString(n) ==
    IF n < 10 THEN <<DigitChars[n + 1]>>
    ELSE toString(n \div 10) \o <<DigitChars[(n % 10) + 1]>>

----------------------------------------------------------------------------
(* String literals of the code *)

slash == "/"
str_uploads == <<"/","u","p","l","o","a","d","s","/">>         \* '/uploads/'
UPLOAD_DIR == <<"/","d","a","t","a","/","u","p","l","o","a","d","s">>
str_originals == <<"o","r","i","g","i","n","a","l","s">>
str_extracted == <<"e","x","t","r","a","c","t","e","d">>
str_converted == <<"c","o","n","v","e","r","t","e","d">>
str_oriented == <<"_","o","r","i","e","n","t","e","d">>         \* '_oriented'
str_zip == <<".","z","i","p">>                                  \* '.zip'
str_macosx == <<"_","_","M","A","C","O","S","X">>               \* '__MACOSX'
Subdirs == <<str_originals, str_extracted, str_converted>>

----------------------------------------------------------------------------
(* path module (posix) *)

\* path.normalize of an absolute path: "", "." dropped, ".." pops, "/.." is "/"
RECURSIVE resolve(_, _)
resolve(segs, acc) ==
    IF segs = <<>> THEN acc
    ELSE LET h == Head(segs)
         IN resolve(Tail(segs),
                IF h = <<>> \/ h = <<".">> THEN acc
                ELSE IF h = <<".", ".">>
                     THEN (IF acc = <<>> THEN acc ELSE SubSeq(acc, 1, Len(acc) - 1))
                     ELSE Append(acc, h))

RECURSIVE segments(_)
segments(args) ==
    IF args = <<>> THEN <<>> ELSE split(Head(args), slash) \o segments(Tail(args))

\* path.join(...args), the first of which is absolute
join(args) == resolve(segments(args), <<>>)

\* path.join(base, ...args) for a base already joined
joinUnder(base, args) == resolve(segments(args), base)

\* path.basename of a string
basename(s) ==
    LET segs == SelectSeq(split(s, slash), LAMBDA x : x # <<>>)
    IN IF segs = <<>> THEN <<>> ELSE segs[Len(segs)]

\* path.basename of a joined path
pathBasename(p) == IF p = <<>> THEN <<>> ELSE p[Len(p)]

\* the joined path as a string
RECURSIVE pathString(_)
pathString(p) ==
    IF p = <<>> THEN <<>> ELSE <<slash>> \o Head(p) \o pathString(Tail(p))

\* path.extname of a name without separators: from the last dot, unless the
\* dot opens the name, or the name is ".."
extnameAt(name, dots) ==
    IF dots = {} \/ Max(dots) = 1 \/ name = <<".", ".">> THEN <<>>
    ELSE SubSeq(name, Max(dots), Len(name))

extname(name) == extnameAt(name, positions(name, "."))

\* name.slice(0, -ext.length || undefined)
sliceExt(name, ext) ==
    IF Len(ext) = 0 THEN name ELSE SubSeq(name, 1, Len(name) - Len(ext))

\* UPLOAD_DIR as path.join leaves it
UploadRoot == join(<<UPLOAD_DIR>>)

\* join(UPLOAD_DIR, ...args)
under(args) == joinUnder(UploadRoot, args)

----------------------------------------------------------------------------
(* MIME resolver *)

IMAGE_TYPES == {"image/jpeg", "image/png", "image/gif", "image/webp", "image/bmp",
                "image/tiff", "image/heic", "image/heif", "image/avif"}

\* IMAGE_TYPES.includes(mimeType) || mimeType.startsWith('image/'): the argument
\* is always a value of getMimeType, whose 'image/' values are all in IMAGE_TYPES
isImage(mimeType) == mimeType \in IMAGE_TYPES

\* the table of getMimeType
mimeTypes(ext) ==
    CASE ext = <<"j","p","g">> -> "image/jpeg"
      [] ext = <<"j","p","e","g">> -> "image/jpeg"
      [] ext = <<"p","n","g">> -> "image/png"
      [] ext = <<"g","i","f">> -> "image/gif"
      [] ext = <<"w","e","b","p">> -> "image/webp"
      [] ext = <<"b","m","p">> -> "image/bmp"
      [] ext = <<"t","i","f","f">> -> "image/tiff"
      [] ext = <<"t","i","f">> -> "image/tiff"
      [] ext = <<"h","e","i","c">> -> "image/heic"
      [] ext = <<"h","e","i","f">> -> "image/heif"
      [] ext = <<"a","v","i","f">> -> "image/avif"
      [] ext = <<"p","d","f">> -> "application/pdf"
      [] OTHER -> "application/octet-stream"

\* filename.toLowerCase().split('.').pop(), looked up; lowering the last piece
\* is lowering the whole name and taking its last piece
getMimeType(filename) ==
    mimeTypes(toLowerCase(afterLast(filename, positions(filename, "."))))

----------------------------------------------------------------------------
(* Filename sanitizer and deduplicating store *)

SafeChars == UpperChars \cup Range(LowerCase) \cup Digits \cup {".", "_", "-"}

MaxNameLen == 200

sanitizeFilename(filename) ==
    LET base == basename(filename)
    IN substring([i \in 1..Len(base) |->
                    IF base[i] \in SafeChars THEN base[i] ELSE "_"], MaxNameLen)

existsSync(D, F, p) == p \in D \/ p \in DOMAIN F

\* `${nameWithoutExt}_${counter}${ext}`
suffixed(nameWithoutExt, counter, ext) ==
    nameWithoutExt \o <<"_">> \o toString(counter) \o ext

\* saveFile with `if` for `while`: one other name is tried, free or not
dedupOnce(D, F, sessionId, subdir, nameWithoutExt, ext, finalPath, counter) ==
    IF existsSync(D, F, finalPath)
    THEN under(<<sessionId, subdir, suffixed(nameWithoutExt, counter, ext)>>)
    ELSE finalPath

\* saveFile without its while loop: the first name is written, free or not
dedupNever(D, F, sessionId, subdir, nameWithoutExt, ext, finalPath, counter) ==
    finalPath

\* the while loop of saveFile, entered with finalPath and counter
RECURSIVE dedupPath(_, _, _, _, _, _, _, _)
dedupPath(D, F, sessionId, subdir, nameWithoutExt, ext, finalPath, counter) ==
    IF existsSync(D, F, finalPath)
    THEN dedupPath(D, F, sessionId, subdir, nameWithoutExt, ext,
                   under(<<sessionId, subdir,
                                           suffixed(nameWithoutExt, counter, ext)>>),
                   counter + 1)
    ELSE finalPath

\* writeFileSync succeeds when the parent is a directory and the path is none
canWrite(D, p) == p # <<>> /\ p \notin D /\ SubSeq(p, 1, Len(p) - 1) \in D

url(sessionId, subdir, name) ==
    str_uploads \o sessionId \o <<slash>> \o subdir \o <<slash>> \o name

\* saveFile from writeFileSync on: [ok, files, write]; ok = FALSE when it throws
writeFinal(D, F, sessionId, subdir, safeFilename, finalPath, data) ==
    IF canWrite(D, finalPath)
    THEN [ok |-> TRUE,
          files |-> (finalPath :> data) @@ F,
          write |-> [sessionId |-> sessionId, subdir |-> subdir,
                     safeFilename |-> safeFilename, finalPath |-> finalPath,
                     url |-> url(sessionId, subdir, pathBasename(finalPath))]]
    ELSE [ok |-> FALSE, files |-> F, write |-> <<>>]

\* saveFile from the sanitized name on
saveSanitized(D, F, sessionId, subdir, safeFilename, ext, data) ==
    writeFinal(D, F, sessionId, subdir, safeFilename,
               dedupPath(D, F, sessionId, subdir, sliceExt(safeFilename, ext), ext,
                         under(<<sessionId, subdir, safeFilename>>), 1),
               data)

saveNamed(D, F, sessionId, subdir, safeFilename, data) ==
    saveSanitized(D, F, sessionId, subdir, safeFilename, extname(safeFilename), data)

saveFile(D, F, sessionId, subdir, filename, data) ==
    saveNamed(D, F, sessionId, subdir, sanitizeFilename(filename), data)

----------------------------------------------------------------------------
(* Bytes.  A Buffer is what decoders make of it: sharp decodes kind "image", *)
(* JSZip decodes kind "zip", nothing decodes kind "raw".                     *)

Image(i) == [kind |-> "image", id |-> i, rot |-> 0, entries |-> <<>>]
Raw(i) == [kind |-> "raw", id |-> i, rot |-> 0, entries |-> <<>>]
Archive(i, es) == [kind |-> "zip", id |-> i, rot |-> 0, entries |-> es]
ZipEntry(name, isDir, data) == [name |-> name, dir |-> isDir, data |-> data]

\* extractZip without the test for hidden files
extractZipHidden(buffer) ==
    IF buffer.kind # "zip" THEN [ok |-> FALSE, files |-> <<>>]
    ELSE LET kept == SelectSeq(buffer.entries,
                        LAMBDA e : ~e.dir /\ ~includes(e.name, str_macosx))
         IN [ok |-> TRUE,
             files |-> [i \in 1..Len(kept) |->
                          [name |-> basename(kept[i].name),
                           data |-> kept[i].data,
                           mimeType |-> getMimeType(kept[i].name)]]]

\* extractZip with a loader that takes what is no archive for an empty one
extractZipLenient(buffer) ==
    IF buffer.kind # "zip" THEN [ok |-> TRUE, files |-> <<>>]
    ELSE LET kept == SelectSeq(buffer.entries,
                        LAMBDA e : /\ ~e.dir
                                   /\ ~startsWith(e.name, <<".">>)
                                   /\ ~includes(e.name, str_macosx))
         IN [ok |-> TRUE,
             files |-> [i \in 1..Len(kept) |->
                          [name |-> basename(kept[i].name),
                           data |-> kept[i].data,
                           mimeType |-> getMimeType(kept[i].name)]]]

\* extractZip: [ok, files]; JSZip.loadAsync rejects what is no archive
extractZip(buffer) ==
    IF buffer.kind # "zip" THEN [ok |-> FALSE, files |-> <<>>]
    ELSE LET kept == SelectSeq(buffer.entries,
                        LAMBDA e : /\ ~e.dir
                                   /\ ~startsWith(e.name, <<".">>)
                                   /\ ~includes(e.name, str_macosx))
         IN [ok |-> TRUE,
             files |-> [i \in 1..Len(kept) |->
                          [name |-> basename(kept[i].name),
                           data |-> kept[i].data,
                           mimeType |-> getMimeType(kept[i].name)]]]

----------------------------------------------------------------------------
(* Orientation corrector *)

Whitespace == {" ", "\n", "\t"}

\* String.prototype.trim
trim(s) ==
    LET inked == {i \in 1..Len(s) : s[i] \notin Whitespace}
    IN IF inked = {} THEN <<>> ELSE SubSeq(s, Min(inked), Max(inked))

digitValue(c) == (CHOOSE k \in 1..Len(DigitChars) : DigitChars[k] = c) - 1

RECURSIVE digitsValue(_, _)
digitsValue(s, acc) ==
    IF s = <<>> \/ s[1] \notin Digits THEN acc
    ELSE digitsValue(Tail(s), 10 * acc + digitValue(s[1]))

\* parseInt of a trimmed string from its sign on
parseSigned(neg, body) ==
    IF body = <<>> \/ body[1] \notin Digits
    THEN [nan |-> TRUE, value |-> 0]
    ELSE [nan |-> FALSE,
          value |-> IF neg THEN 0 - digitsValue(body, 0) ELSE digitsValue(body, 0)]

parseTrimmed(t) ==
    IF t # <<>> /\ t[1] \in {"-", "+"} THEN parseSigned(t[1] = "-", Tail(t))
    ELSE parseSigned(FALSE, t)

\* parseInt(s, 10): leading whitespace, a sign, then the longest run of digits;
\* NaN when there is no digit
parseInt(s) == parseTrimmed(trim(s))

\* A reply of openai.chat.completions.create: the call throws, or the
\* completion carries no content, or it carries the text `content`
Throws == [kind |-> "throw", content |-> <<>>]
NoContent == [kind |-> "null", content |-> <<>>]
Text(s) == [kind |-> "text", content |-> s]

Angles == {0, 90, 180, 270}

\* the value of parseInt without the test
detectedAny(rotation) == IF rotation.nan THEN 0 ELSE rotation.value

\* the [0, 90, 180, 270].includes(rotation) test on the value of parseInt
detectedRotation(rotation) ==
    IF ~rotation.nan /\ rotation.value \in Angles THEN rotation.value ELSE 0

\* response.choices[0]?.message?.content?.trim() || '0'
replyResult(trimmed) == IF trimmed = <<>> THEN <<"0">> ELSE trimmed

\* detectOrientation without the test of the API key
detectWithoutKey(key, reply) ==
    IF reply.kind = "throw"
    THEN [rotation |-> 0, calls |-> <<[fn |-> "model", reply |-> reply]>>]
    ELSE [rotation |-> detectedRotation(parseInt(replyResult(
                           IF reply.kind = "null" THEN <<>> ELSE trim(reply.content)))),
          calls |-> <<[fn |-> "model", reply |-> reply]>>]

\* detectOrientation: [rotation, calls]
detectOrientation(key, reply) ==
    IF ~key THEN [rotation |-> 0, calls |-> <<>>]
    ELSE IF reply.kind = "throw"
    THEN [rotation |-> 0, calls |-> <<[fn |-> "model", reply |-> reply]>>]
    ELSE [rotation |-> detectedRotation(parseInt(replyResult(
                           IF reply.kind = "null" THEN <<>> ELSE trim(reply.content)))),
          calls |-> <<[fn |-> "model", reply |-> reply]>>]

\* rotateImage: [ok, data, calls]; sharp rejects bytes that are no image
rotateImage(imageData, degrees) ==
    IF degrees = 0 THEN [ok |-> TRUE, data |-> imageData, calls |-> <<>>]
    ELSE [ok |-> imageData.kind = "image",
          data |-> [imageData EXCEPT !.rot = (@ + degrees) % 360],
          calls |-> <<[fn |-> "rotate", degrees |-> degrees]>>]

\* a correction by the detected angle itself
correctionSame(rotation) == rotation

correctionMap(rotation) ==
    CASE rotation = 90 -> 270
      [] rotation = 180 -> 180
      [] rotation = 270 -> 90
      [] OTHER -> 0

\* autoOrientImage after rotateImage
autoOrientRotated(imageData, rotation, seen, r) ==
    IF r.ok
    THEN [ok |-> TRUE, data |-> r.data, rotated |-> rotation,
          calls |-> seen \o r.calls \o
                    <<[fn |-> "oriented", input |-> imageData,
                       data |-> r.data, rotated |-> rotation]>>]
    ELSE [ok |-> FALSE, data |-> imageData, rotated |-> rotation,
          calls |-> seen \o r.calls]

\* autoOrientImage after detectOrientation
autoOrientDetected(imageData, rotation, seen) ==
    IF rotation = 0
    THEN [ok |-> TRUE, data |-> imageData, rotated |-> 0,
          calls |-> seen \o <<[fn |-> "oriented", input |-> imageData,
                               data |-> imageData, rotated |-> 0]>>]
    ELSE autoOrientRotated(imageData, rotation, seen,
                           rotateImage(imageData, correctionMap(rotation)))

\* autoOrientImage from the value of detectOrientation on
autoOrientFrom(imageData, detected) ==
    autoOrientDetected(imageData, detected.rotation,
        detected.calls \o <<[fn |-> "detected", rotation |-> detected.rotation]>>)

\* autoOrientImage: [ok, data, rotated, calls]; ok = FALSE when sharp throws
autoOrientImage(key, imageData, reply) ==
    autoOrientFrom(imageData, detectOrientation(key, reply))

----------------------------------------------------------------------------
(* Requests the model sends *)

SessionIds == {<<"s", "1">>, <<"s", "2">>}

name_a == <<"a", ".", "p", "n", "g">>                            \* a.png
name_a1 == <<"d", "/", "a", " ", "1", ".", "p", "n", "g">>       \* "d/a 1.png"
name_long == [i \in 1..(MaxNameLen - 4) |-> "a"] \o <<".", "p", "n", "g">>
name_txt == <<"n", ".", "t", "x", "t">>                          \* n.txt
name_zip == <<"t", ".", "Z", "I", "P">>                          \* t.ZIP
name_bad == <<"b", ".", "z", "i", "p">>                          \* b.zip

ZipEntries ==
    << ZipEntry(<<"p", "/">>, TRUE, Raw(0)),
       ZipEntry(<<"p", "/", "a", ".", "p", "n", "g">>, FALSE, Image(1)),
       ZipEntry(<<".", "h", ".", "p", "n", "g">>, FALSE, Image(2)),
       ZipEntry(str_macosx \o <<"/", "b", ".", "p", "n", "g">>, FALSE, Image(3)),
       ZipEntry(name_txt, FALSE, Raw(1)) >>

\* the archive with a.png, .hidden and __MACOSX/b.txt
PlainEntries ==
    << ZipEntry(name_a, FALSE, Image(1)),
       ZipEntry(<<".", "h", "i", "d", "d", "e", "n">>, FALSE, Raw(2)),
       ZipEntry(str_macosx \o <<"/", "b", ".", "t", "x", "t">>, FALSE, Raw(3)) >>

name_z == <<"z">>                                                \* z

File(originalname, mimetype, buffer) ==
    [originalname |-> originalname, mimetype |-> mimetype, buffer |-> buffer]

UploadFiles ==
    { File(name_a, "image/png", Image(1)),
      File(name_a, "image/png", Image(2)),
      File(name_a1, "image/png", Image(1)),
      File(name_txt, "text/plain", Raw(1)),
      File(name_zip, "application/octet-stream", Archive(1, ZipEntries)),
      File(name_z, "application/x-zip-compressed", Archive(2, PlainEntries)),
      File(name_bad, "application/zip", Raw(2)) }

\* the file lists of the upload requests: none, one file, two files of which
\* the second repeats a name or is a broken archive, and an image followed by
\* a text file
UploadRequests ==
    {<<>>} \cup {<<f>> : f \in UploadFiles}
           \cup {<<f, g>> : f \in UploadFiles,
                            g \in {File(name_a, "image/png", Image(2)),
                                   File(name_bad, "application/zip", Raw(2))}}
           \cup {<<File(name_a, "image/png", Image(1)),
                   File(name_txt, "text/plain", Raw(1))>>}

OrientReplies ==
    { Throws, NoContent,
      Text(<<"0">>), Text(<<"9", "0">>), Text(<<"1", "8", "0">>),
      Text(<<"2", "7", "0">>), Text(<<" ", "9", "0", "\n">>),
      Text(<<"9", "0", " ", "d", "e", "g">>), Text(<<"4", "5">>),
      Text(<<"-", "9", "0">>), Text(<<"2", "7", "0", "0">>),
      Text(<<"u", "p">>), Text(<<" ">>) }

BatchReplies == {Throws, Text(<<"0">>), Text(<<"9", "0">>), Text(<<"1", "8", "0">>)}

----------------------------------------------------------------------------
(* Session store *)

isPrefix(p, q) == Len(p) <= Len(q) /\ SubSeq(q, 1, Len(p)) = p

\* the logical URL of a stored file
urlOfPath(p) ==
    <<"/", "u", "p", "l", "o", "a", "d", "s">>
        \o pathString(SubSeq(p, Len(UploadRoot) + 1, Len(p)))

\* a handler's outcome: its response, the files it leaves, its writes, its calls
Outcome(r, F, W, C) == [resp |-> r, files |-> F, writes |-> W, calls |-> C]

Commit(o) ==
    resp' = o.resp /\ files' = o.files /\ writes' = o.writes /\ calls' = o.calls

Init ==
    /\ apiKey \in BOOLEAN
    /\ dirs = {<<>>, SubSeq(UploadRoot, 1, 1), UploadRoot}
    /\ files = <<>>
    /\ resp = [op |-> "listen", status |-> 200]
    /\ writes = <<>>
    /\ calls = <<>>
    /\ editedTickets = <<>>
    /\ currentIndex = 0
    /\ Quiet

\* createSessionDir: mkdirSync(..., { recursive: true }) of the three subfolders
createSessionDir(D, sessionId) ==
    D \cup {under(<<sessionId>>)} \cup
        {under(<<sessionId, Subdirs[k]>>) : k \in 1..Len(Subdirs)}

\* POST /api/sessions
CreateSession ==
    \E sessionId \in SessionIds :
        /\ dirs' = createSessionDir(dirs, sessionId)
        /\ Commit(Outcome([op |-> "create", status |-> 200, sessionId |-> sessionId],
                          files, <<>>, <<>>))
        /\ UNCHANGED <<apiKey, editedTickets, currentIndex, later>>

\* rmSync(sessionDir, { recursive: true, force: true })
rmSync(P, sessionDir) == {p \in P : ~isPrefix(sessionDir, p)}

\* the handler without the test of existsSync: rmSync with force throws nothing
deleteSessionForce(D, F, sessionId, sessionDir) ==
    [dirs |-> rmSync(D, sessionDir),
     out |-> Outcome([op |-> "delete", status |-> 200, sessionId |-> sessionId],
                     [p \in rmSync(DOMAIN F, sessionDir) |-> F[p]], <<>>, <<>>)]

deleteSession(D, F, sessionId, sessionDir) ==
    IF ~existsSync(D, F, sessionDir)
    THEN [dirs |-> D,
          out |-> Outcome([op |-> "delete", status |-> 404, sessionId |-> sessionId],
                          F, <<>>, <<>>)]
    ELSE [dirs |-> rmSync(D, sessionDir),
          out |-> Outcome([op |-> "delete", status |-> 200, sessionId |-> sessionId],
                          [p \in rmSync(DOMAIN F, sessionDir) |-> F[p]], <<>>, <<>>)]

CommitDirs(d) == dirs' = d.dirs /\ Commit(d.out)

\* DELETE /api/sessions/:sessionId
DeleteSession ==
    \E sessionId \in SessionIds :
        /\ CommitDirs(deleteSession(dirs, files, sessionId,
                                    under(<<sessionId>>)))
        /\ UNCHANGED <<apiKey, editedTickets, currentIndex, later>>

----------------------------------------------------------------------------
(* Upload handler *)

\* the body of one loop: acc and the outcome of saveFile, with the record the
\* handler pushes on success
pushSaved(acc, s, result) ==
    IF s.ok
    THEN [acc EXCEPT !.files = s.files,
                     !.writes = Append(@, s.write),
                     !.results = Append(@, result @@ [url |-> s.write.url])]
    ELSE [acc EXCEPT !.ok = FALSE]

\* the loop over the extracted entries without the test of the MIME type
RECURSIVE saveExtractedAll(_, _, _, _, _, _)
saveExtractedAll(D, acc, sessionId, extractedFiles, i, source) ==
    IF i > Len(extractedFiles) \/ ~acc.ok THEN acc
    ELSE LET e == extractedFiles[i]
         IN saveExtractedAll(D,
                pushSaved(acc,
                    saveFile(D, acc.files, sessionId, str_extracted, e.name, e.data),
                    [name |-> e.name, mimeType |-> e.mimeType, source |-> source]),
                sessionId, extractedFiles, i + 1, source)

\* for (const extractedFile of extracted)
RECURSIVE saveExtracted(_, _, _, _, _, _)
saveExtracted(D, acc, sessionId, extractedFiles, i, source) ==
    IF i > Len(extractedFiles) \/ ~acc.ok THEN acc
    ELSE LET e == extractedFiles[i]
         IN saveExtracted(D,
                IF isImage(e.mimeType) \/ e.mimeType = "application/pdf"
                THEN pushSaved(acc,
                         saveFile(D, acc.files, sessionId, str_extracted, e.name, e.data),
                         [name |-> e.name, mimeType |-> e.mimeType, source |-> source])
                ELSE acc,
                sessionId, extractedFiles, i + 1, source)

isZip(file) ==
    \/ file.mimetype = "application/zip"
    \/ file.mimetype = "application/x-zip-compressed"
    \/ endsWith(toLowerCase(file.originalname), str_zip)

\* the ZIP branch after extractZip and the saveFile of the archive
zipSaved(D, acc, sessionId, file, z, o) ==
    IF ~z.ok \/ ~o.ok THEN [acc EXCEPT !.ok = FALSE]
    ELSE saveExtracted(D,
             [acc EXCEPT !.files = o.files, !.writes = Append(@, o.write)],
             sessionId, z.files, 1, file.originalname)

\* the body of for (const file of files): the ZIP branch
uploadZip(D, acc, sessionId, file) ==
    zipSaved(D, acc, sessionId, file, extractZip(file.buffer),
             saveFile(D, acc.files, sessionId, str_originals, file.originalname, file.buffer))

\* the loop body with an error for a file that is neither archive, image nor PDF
uploadOneStrict(D, acc, sessionId, file) ==
    LET mimeType == getMimeType(file.originalname)
    IN IF isZip(file) THEN uploadZip(D, acc, sessionId, file)
       ELSE IF isImage(mimeType) \/ mimeType = "application/pdf"
       THEN pushSaved(acc,
                saveFile(D, acc.files, sessionId, str_originals,
                         file.originalname, file.buffer),
                [name |-> file.originalname, mimeType |-> mimeType])
       ELSE [acc EXCEPT !.ok = FALSE]

\* the body of for (const file of files)
uploadOne(D, acc, sessionId, file) ==
    LET mimeType == getMimeType(file.originalname)
    IN IF isZip(file) THEN uploadZip(D, acc, sessionId, file)
       ELSE IF isImage(mimeType) \/ mimeType = "application/pdf"
       THEN pushSaved(acc,
                saveFile(D, acc.files, sessionId, str_originals,
                         file.originalname, file.buffer),
                [name |-> file.originalname, mimeType |-> mimeType])
       ELSE acc

\* for (const file of files)
RECURSIVE uploadLoop(_, _, _, _, _)
uploadLoop(D, acc, sessionId, reqFiles, i) ==
    IF i > Len(reqFiles) \/ ~acc.ok THEN acc
    ELSE uploadLoop(D, uploadOne(D, acc, sessionId, reqFiles[i]), sessionId, reqFiles, i + 1)

\* the upload handler that removes what it has written when a file throws
uploadOutcomeRolledBack(req, F, r) ==
    IF r.ok
    THEN Outcome([op |-> "upload", status |-> 200, req |-> req, files |-> r.results],
                 r.files, r.writes, <<>>)
    ELSE Outcome([op |-> "upload", status |-> 500, req |-> req], F, r.writes, <<>>)

uploadOutcome(req, F, r) ==
    IF r.ok
    THEN Outcome([op |-> "upload", status |-> 200, req |-> req, files |-> r.results],
                 r.files, r.writes, <<>>)
    ELSE Outcome([op |-> "upload", status |-> 500, req |-> req], r.files, r.writes, <<>>)

upload(D, F, sessionId, reqFiles, req) ==
    IF ~existsSync(D, F, under(<<sessionId>>))
    THEN Outcome([op |-> "upload", status |-> 404, req |-> req], F, <<>>, <<>>)
    ELSE IF Len(reqFiles) = 0
    THEN Outcome([op |-> "upload", status |-> 400, req |-> req], F, <<>>, <<>>)
    ELSE uploadOutcome(req, F,
             uploadLoop(D, [ok |-> TRUE, files |-> F, writes |-> <<>>, results |-> <<>>],
                        sessionId, reqFiles, 1))

\* POST /api/sessions/:sessionId/upload
Upload ==
    \E sessionId \in SessionIds, reqFiles \in UploadRequests :
        /\ Commit(upload(dirs, files, sessionId, reqFiles,
                         [sessionId |-> sessionId, files |-> reqFiles]))
        /\ Cardinality(DOMAIN files') <= MaxFiles
        /\ UNCHANGED <<apiKey, dirs, editedTickets, currentIndex, later>>

----------------------------------------------------------------------------
(* Session details and converted images *)

\* getFiles(subdir) for the listing readdirSync gives
getFiles(sessionId, subdir, names) ==
    [i \in 1..Len(names) |->
        [name |-> names[i], url |-> url(sessionId, subdir, names[i]),
         mimeType |-> getMimeType(names[i])]]

getSession(D, F, req, listing) ==
    IF ~existsSync(D, F, under(<<req.sessionId>>))
    THEN Outcome([op |-> "get", status |-> 404, req |-> req,
                  error |-> "Session not found"], F, <<>>, <<>>)
    ELSE Outcome([op |-> "get", status |-> 200, req |-> req, id |-> req.sessionId,
                  files |-> [k \in 1..Len(Subdirs) |->
                               IF existsSync(D, F, under(<<req.sessionId, Subdirs[k]>>))
                               THEN getFiles(req.sessionId, Subdirs[k], listing[k])
                               ELSE <<>>]],
                 F, <<>>, <<>>)

\* A value of the JSON body: a string, a number, or nothing
Str(s) == [t |-> "string", s |-> s]
Number == [t |-> "number", s |-> <<>>]
Undefined == [t |-> "undefined", s |-> <<>>]

str_data == <<"d", "a", "t", "a", ":">>                          \* 'data:'
str_base64 == <<";", "b", "a", "s", "e", "6", "4", ",">>         \* ';base64,'
LineTerminators == {"\n", "\r"}

NoMatch == [ok |-> FALSE, mimeType |-> <<>>, payload |-> <<>>]

\* the match from the first ";" on: ";base64," and a payload of one character
\* or more, none of them a line terminator
matchBase64(mimeType, tail) ==
    IF ~startsWith(tail, str_base64) THEN NoMatch
    ELSE LET payload == SubSeq(tail, Len(str_base64) + 1, Len(tail))
         IN IF payload = <<>> \/ \E i \in 1..Len(payload) : payload[i] \in LineTerminators
            THEN NoMatch
            ELSE [ok |-> TRUE, mimeType |-> mimeType, payload |-> payload]

\* the match after 'data:': one character or more up to the first ";"
matchMime(rest, semis) ==
    IF semis = {} \/ Min(semis) = 1 THEN NoMatch
    ELSE matchBase64(SubSeq(rest, 1, Min(semis) - 1),
                     SubSeq(rest, Min(semis), Len(rest)))

\* dataUrl.match(/^data:([^;]+);base64,(.+)$/)
dataUrlMatch(dataUrl) ==
    IF ~startsWith(dataUrl, str_data) THEN NoMatch
    ELSE matchMime(SubSeq(dataUrl, Len(str_data) + 1, Len(dataUrl)),
                   positions(SubSeq(dataUrl, Len(str_data) + 1, Len(dataUrl)), ";"))

\* Buffer.from(payload, 'base64'): "I" and a digit k is the text of the image
\* k; any other text decodes to bytes that are no image
fromBase64(payload) ==
    IF Len(payload) = 2 /\ payload[1] = "I" /\ payload[2] \in Range(DigitChars)
    THEN Image(digitValue(payload[2]))
    ELSE Raw(Len(payload))

\* the loop body after saveFile
convertedSaved(acc, s, mimeType) ==
    IF s.ok
    THEN [acc EXCEPT !.files = s.files,
                     !.writes = Append(@, s.write),
                     !.results = Append(@, [name |-> basename(s.write.url),
                                            url |-> s.write.url,
                                            mimeType |-> mimeType])]
    ELSE [acc EXCEPT !.ok = FALSE]

\* the loop body after the match; basename of a name that is no string throws
convertedMatched(D, acc, sessionId, image, matches) ==
    IF ~matches.ok THEN acc
    ELSE IF image.name.t # "string" THEN [acc EXCEPT !.ok = FALSE]
    ELSE convertedSaved(acc,
             saveFile(D, acc.files, sessionId, str_converted, image.name.s,
                      fromBase64(matches.payload)),
             matches.mimeType)

\* the body of for (const image of images); match of a dataUrl that is no
\* string throws
convertedOne(D, acc, sessionId, image) ==
    IF image.dataUrl.t # "string" THEN [acc EXCEPT !.ok = FALSE]
    ELSE convertedMatched(D, acc, sessionId, image, dataUrlMatch(image.dataUrl.s))

\* for (const image of images)
RECURSIVE convertedLoop(_, _, _, _, _)
convertedLoop(D, acc, sessionId, images, i) ==
    IF i > Len(images) \/ ~acc.ok THEN acc
    ELSE convertedLoop(D, convertedOne(D, acc, sessionId, images[i]), sessionId,
                       images, i + 1)

convertedOutcome(req, r) ==
    IF r.ok
    THEN Outcome([op |-> "converted", status |-> 200, req |-> req,
                  files |-> r.results], r.files, r.writes, <<>>)
    ELSE Outcome([op |-> "converted", status |-> 500, req |-> req,
                  error |-> "Failed to save converted images"],
                 r.files, r.writes, <<>>)

\* req.images is the list of the body, or nothing
saveConverted(D, F, req) ==
    IF ~existsSync(D, F, under(<<req.sessionId>>))
    THEN Outcome([op |-> "converted", status |-> 404, req |-> req,
                  error |-> "Session not found"], F, <<>>, <<>>)
    ELSE IF req.images.t # "array"
    THEN Outcome([op |-> "converted", status |-> 400, req |-> req,
                  error |-> "No images provided"], F, <<>>, <<>>)
    ELSE convertedOutcome(req,
             convertedLoop(D, [ok |-> TRUE, files |-> F, writes |-> <<>>,
                               results |-> <<>>],
                           req.sessionId, req.images.items, 1))

----------------------------------------------------------------------------

(* Orientation endpoints *)

\* `${nameWithoutExt}_oriented${ext}` for the extension ext of the name
orientedNameWith(filename, ext) == sliceExt(filename, ext) \o str_oriented \o ext

orientedName(filename) == orientedNameWith(filename, extname(filename))

\* imageUrl.replace('/uploads/', '').replace(`${sessionId}/`, '').split('/')[0]
subdirOf(imageUrl, sessionId) ==
    split(replace(replace(imageUrl, str_uploads, <<>>),
                  sessionId \o <<slash>>, <<>>), slash)[1]

\* the handler after saveFile
orientSaved(F, req, o, s) ==
    IF s.ok
    THEN Outcome([op |-> "orient", status |-> 200, req |-> req, rotated |-> o.rotated,
                  url |-> s.write.url, originalUrl |-> req.imageUrl],
                 s.files, <<s.write>>, o.calls)
    ELSE Outcome([op |-> "orient", status |-> 500, req |-> req,
                  error |-> "Failed to orient image"], F, <<>>, o.calls)

\* the orient handler that writes the rotated bytes over the source
orientInPlace(D, F, req, filePath, o) ==
    IF ~o.ok
    THEN Outcome([op |-> "orient", status |-> 500, req |-> req,
                  error |-> "Failed to orient image"], F, <<>>, o.calls)
    ELSE IF o.rotated = 0
    THEN Outcome([op |-> "orient", status |-> 200, req |-> req, rotated |-> 0,
                  url |-> req.imageUrl], F, <<>>, o.calls)
    ELSE Outcome([op |-> "orient", status |-> 200, req |-> req, rotated |-> o.rotated,
                  url |-> req.imageUrl, originalUrl |-> req.imageUrl],
                 (filePath :> o.data) @@ F, <<>>, o.calls)

\* the handler after autoOrientImage
orientOriented(D, F, req, filePath, o) ==
    IF ~o.ok
    THEN Outcome([op |-> "orient", status |-> 500, req |-> req,
                  error |-> "Failed to orient image"], F, <<>>, o.calls)
    ELSE IF o.rotated = 0
    THEN Outcome([op |-> "orient", status |-> 200, req |-> req, rotated |-> 0,
                  url |-> req.imageUrl], F, <<>>, o.calls)
    ELSE orientSaved(F, req, o,
             saveFile(D, F, req.sessionId, subdirOf(req.imageUrl, req.sessionId),
                      orientedName(pathBasename(filePath)), o.data))

\* the handler from filePath on; readFileSync of a directory throws
orientRead(D, F, key, req, reply, filePath) ==
    IF ~existsSync(D, F, filePath)
    THEN Outcome([op |-> "orient", status |-> 404, req |-> req,
                  error |-> "Image not found"], F, <<>>, <<>>)
    ELSE IF filePath \in D
    THEN Outcome([op |-> "orient", status |-> 500, req |-> req,
                  error |-> "Failed to orient image"], F, <<>>, <<>>)
    ELSE orientOriented(D, F, req, filePath, autoOrientImage(key, F[filePath], reply))

orient(D, F, key, req, reply) ==
    IF req.imageUrl = <<>>
    THEN Outcome([op |-> "orient", status |-> 400, req |-> req,
                  error |-> "No image URL provided"], F, <<>>, <<>>)
    ELSE IF ~existsSync(D, F, under(<<req.sessionId>>))
    THEN Outcome([op |-> "orient", status |-> 404, req |-> req,
                  error |-> "Session not found"], F, <<>>, <<>>)
    ELSE orientRead(D, F, key, req, reply,
                    under(<<replace(req.imageUrl, str_uploads, <<>>)>>))

\* the session ids of the requests: those of the sessions, and one of no session
NoSession == <<"s", "0">>
RequestIds == SessionIds \cup {NoSession}

\* the image URLs a client sends: those of the stored files, the URL of a
\* subfolder, the URL of no file, and none
OrientUrls ==
    {urlOfPath(p) : p \in DOMAIN files}
        \cup {url(<<"s", "1">>, str_originals, <<>>),
              url(<<"s", "1">>, str_originals, <<"x", ".", "p", "n", "g">>),
              <<>>}

\* POST /api/sessions/:sessionId/orient
Orient ==
    \E sessionId \in RequestIds, imageUrl \in OrientUrls, reply \in OrientReplies :
        /\ Commit(orient(dirs, files, apiKey,
                         [sessionId |-> sessionId, imageUrl |-> imageUrl], reply))
        /\ UNCHANGED <<apiKey, dirs, editedTickets, currentIndex, later>>

\* the orders in which the elements of S can be enumerated
enumerations(S) ==
    {f \in [1..Cardinality(S) -> S] : \A i, j \in DOMAIN f : f[i] = f[j] => i = j}

\* readdirSync(dirPath): the names in the directory, in one of their orders
readdirSync(F, dirPath) ==
    enumerations({pathBasename(p) : p \in {q \in DOMAIN F :
                      SubSeq(q, 1, Len(q) - 1) = dirPath}})

\* the loop body after saveFile
orientAllSaved(acc, originalUrl, o, s) ==
    IF s.ok
    THEN [acc EXCEPT !.files = s.files,
                     !.writes = Append(@, s.write),
                     !.results = Append(@, [url |-> originalUrl, rotated |-> o.rotated,
                                            newUrl |-> s.write.url])]
    ELSE [acc EXCEPT !.ok = FALSE]

\* the loop body after autoOrientImage
orientAllOriented(D, acc, sessionId, subdir, filename, o) ==
    IF ~o.ok THEN [acc EXCEPT !.ok = FALSE, !.calls = @ \o o.calls]
    ELSE IF o.rotated = 0
    THEN [acc EXCEPT !.calls = @ \o o.calls,
                     !.results = Append(@, [url |-> url(sessionId, subdir, filename),
                                            rotated |-> 0])]
    ELSE orientAllSaved([acc EXCEPT !.calls = @ \o o.calls],
             url(sessionId, subdir, filename), o,
             saveFile(D, acc.files, sessionId, subdir, orientedName(filename), o.data))

\* the loop body that skips what is no image, and nothing else
orientAllOneEvery(D, key, acc, sessionId, subdir, filename, filePath, replyOf) ==
    IF ~isImage(getMimeType(filename)) THEN acc
    ELSE orientAllOriented(D, acc, sessionId, subdir, filename,
             autoOrientImage(key, acc.files[filePath], replyOf[filePath]))

\* the loop body that skips an image of which an oriented copy is stored
orientAllOneOnce(D, key, acc, sessionId, subdir, filename, filePath, replyOf) ==
    IF \/ ~isImage(getMimeType(filename)) \/ includes(filename, str_oriented)
       \/ existsSync(D, acc.files, under(<<sessionId, subdir, orientedName(filename)>>))
    THEN acc
    ELSE orientAllOriented(D, acc, sessionId, subdir, filename,
             autoOrientImage(key, acc.files[filePath], replyOf[filePath]))

\* the body of for (const filename of files)
orientAllOne(D, key, acc, sessionId, subdir, filename, filePath, replyOf) ==
    IF ~isImage(getMimeType(filename)) \/ includes(filename, str_oriented) THEN acc
    ELSE orientAllOriented(D, acc, sessionId, subdir, filename,
             autoOrientImage(key, acc.files[filePath], replyOf[filePath]))

\* for (const filename of files)
RECURSIVE orientAllFiles(_, _, _, _, _, _, _, _)
orientAllFiles(D, key, acc, sessionId, subdir, names, i, replyOf) ==
    IF i > Len(names) \/ ~acc.ok THEN acc
    ELSE orientAllFiles(D, key,
             orientAllOne(D, key, acc, sessionId, subdir, names[i],
                          under(<<sessionId, subdir, names[i]>>), replyOf),
             sessionId, subdir, names, i + 1, replyOf)

\* for (const subdir of ['originals', 'extracted', 'converted'])
RECURSIVE orientAllSubdirs(_, _, _, _, _, _, _)
orientAllSubdirs(D, key, acc, sessionId, k, listing, replyOf) ==
    IF k > Len(Subdirs) \/ ~acc.ok THEN acc
    ELSE orientAllSubdirs(D, key,
             IF ~existsSync(D, acc.files, under(<<sessionId, Subdirs[k]>>)) THEN acc
             ELSE orientAllFiles(D, key, acc, sessionId, Subdirs[k], listing[k], 1,
                                 replyOf),
             sessionId, k + 1, listing, replyOf)

orientAllOutcome(req, r) ==
    IF r.ok
    THEN Outcome([op |-> "orient-all", status |-> 200, req |-> req,
                  results |-> r.results], r.files, r.writes, r.calls)
    ELSE Outcome([op |-> "orient-all", status |-> 500, req |-> req,
                  error |-> "Failed to orient images"], r.files, r.writes, r.calls)

orientAll(D, F, key, req, listing, replyOf) ==
    IF ~existsSync(D, F, under(<<req.sessionId>>))
    THEN Outcome([op |-> "orient-all", status |-> 404, req |-> req,
                  error |-> "Session not found"], F, <<>>, <<>>)
    ELSE orientAllOutcome(req,
             orientAllSubdirs(D, key,
                 [ok |-> TRUE, files |-> F, writes |-> <<>>, calls |-> <<>>,
                  results |-> <<>>],
                 req.sessionId, 1, listing, replyOf))

\* the stored files of a session that getMimeType takes for images
imagesOf(F, sessionId) ==
    {p \in DOMAIN F : /\ Len(p) > Len(UploadRoot)
                      /\ p[Len(UploadRoot) + 1] = sessionId
                      /\ isImage(getMimeType(pathBasename(p)))}

\* POST /api/sessions/:sessionId/orient-all: a subfolder written during the
\* request is listed before the request writes to it
OrientAll ==
    \E sessionId \in RequestIds :
        \E l1 \in readdirSync(files, under(<<sessionId, Subdirs[1]>>)),
           l2 \in readdirSync(files, under(<<sessionId, Subdirs[2]>>)),
           l3 \in readdirSync(files, under(<<sessionId, Subdirs[3]>>)),
           replyOf \in [imagesOf(files, sessionId) -> BatchReplies] :
            /\ Commit(orientAll(dirs, files, apiKey, [sessionId |-> sessionId],
                                <<l1, l2, l3>>, replyOf))
            /\ UNCHANGED <<apiKey, dirs, editedTickets, currentIndex, later>>

----------------------------------------------------------------------------
(* Extraction engine *)

TICKET_FIELDS ==
    << "ticketNumber", "date", "time", "materialType", "quantity", "unit",
       "truckId", "driverId", "driverName", "jobNumber", "projectName",
       "customerName", "vendorName", "plantLocation", "grossWeight",
       "tareWeight", "netWeight", "pricePerUnit", "totalPrice", "notes" >>

\* A JavaScript number: an integer, or NaN
Num(n) == [nan |-> FALSE, n |-> n]
NaN == [nan |-> TRUE, n |-> 0]

\* A JSON value found under `confidence`: a number, a string that is no
\* number, or nothing
JsonNumber(n) == [t |-> "number", n |-> n]
JsonString == [t |-> "string", n |-> 0]
JsonNothing == [t |-> "undefined", n |-> 0]

\* A JSON value found under a field's key: nothing, null, or an object with
\* `value` and `confidence`
FieldNothing == [t |-> "undefined", value |-> "", confidence |-> JsonNothing]
FieldNull == [t |-> "null", value |-> "", confidence |-> JsonNothing]
FieldObject(value, confidence) ==
    [t |-> "object", value |-> value, confidence |-> confidence]

\* extractedFields[field] || { value: '', confidence: 0 }
extractedOf(extractedFields, field) ==
    IF field \in DOMAIN extractedFields /\ extractedFields[field].t = "object"
    THEN extractedFields[field]
    ELSE FieldObject("", JsonNumber(0))

\* Math.min(100, Math.max(0, x)) for x = extracted.confidence || 0; a string
\* that is no number makes both NaN
clampConfidence(c) ==
    IF c.t = "string" THEN NaN
    ELSE IF c.t = "undefined" \/ c.n < 0 THEN Num(0)
    ELSE IF c.n > 100 THEN Num(100)
    ELSE Num(c.n)

\* confidence < 80 alone
needsReviewBelow(confidence) == ~confidence.nan /\ confidence.n < 80

\* confidence > 0 && confidence < 80, false for NaN
needsReviewOf(confidence) == ~confidence.nan /\ confidence.n > 0 /\ confidence.n < 80

\* fields[field] from the clamped confidence
fieldWith(extracted, confidence) ==
    [value |-> extracted.value, confidence |-> confidence,
     needsReview |-> needsReviewOf(confidence)]

fieldOf(extracted) == fieldWith(extracted, clampConfidence(extracted.confidence))

\* for (const field of TICKET_FIELDS): totalConfidence and fieldCount
RECURSIVE confidenceTotals(_, _, _)
confidenceTotals(fields, i, acc) ==
    IF i > Len(TICKET_FIELDS) THEN acc
    ELSE confidenceTotals(fields, i + 1,
             IF ~fields[TICKET_FIELDS[i]].confidence.nan
                /\ fields[TICKET_FIELDS[i]].confidence.n > 0
             THEN [totalConfidence |->
                       acc.totalConfidence + fields[TICKET_FIELDS[i]].confidence.n,
                   fieldCount |-> acc.fieldCount + 1]
             ELSE acc)

\* Math.floor of the quotient
truncate(total, count) == total \div count

\* Math.round of a quotient of naturals: halves go up
round(total, count) == (2 * total + count) \div (2 * count)

\* fieldCount > 0 ? Math.round(totalConfidence / fieldCount) : 0
overallOf(t) ==
    IF t.fieldCount > 0 THEN round(t.totalConfidence, t.fieldCount) ELSE 0

\* the ticket with `>` for `>=`
ticketAbove(id, imageUrl, fields, overallConfidence) ==
    [id |-> id, imageUrl |-> imageUrl, fields |-> fields,
     overallConfidence |-> overallConfidence,
     status |-> IF overallConfidence > 80 THEN "pending" ELSE "flagged"]

\* the ticket from its overallConfidence
ticketWith(id, imageUrl, fields, overallConfidence) ==
    [id |-> id, imageUrl |-> imageUrl, fields |-> fields,
     overallConfidence |-> overallConfidence,
     status |-> IF overallConfidence >= 80 THEN "pending" ELSE "flagged"]

\* the ticket from its fields
ticketOf(id, imageUrl, fields) ==
    ticketWith(id, imageUrl, fields,
        overallOf(confidenceTotals(fields, 1,
                      [totalConfidence |-> 0, fieldCount |-> 0])))

\* "Build structured ticket data"
buildTicket(id, imageUrl, extractedFields) ==
    ticketOf(id, imageUrl,
        [field \in Range(TICKET_FIELDS) |-> fieldOf(extractedOf(extractedFields, field))])

\* The text of a completion is a sequence of pieces: "{", "}", "x" for text
\* without braces, and "m" for the members of one JSON object, whose decoded
\* value is the `members` of the reply.
Json(content, members) == [kind |-> "text", content |-> content, members |-> members]

\* content.match(/\{[\s\S]*\}/): from the first "{" to the last "}"
jsonMatchAt(content, opens, closes) ==
    IF opens = {} \/ closes = {} \/ Min(opens) > Max(closes) THEN <<>>
    ELSE SubSeq(content, Min(opens), Max(closes))

jsonMatch(content) == jsonMatchAt(content, positions(content, "{"), positions(content, "}"))

\* jsonMatch ? JSON.parse(jsonMatch[0]) : {}: [ok, fields]; JSON.parse throws
\* on a block that is not one object
parseMatch(block, members) ==
    IF block = <<>> \/ block = <<"{", "}">> THEN [ok |-> TRUE, fields |-> <<>>]
    ELSE IF block = <<"{", "m", "}">> THEN [ok |-> TRUE, fields |-> members]
    ELSE [ok |-> FALSE, fields |-> <<>>]

\* response.choices[0]?.message?.content || '{}', matched and parsed
parseReply(reply) ==
    IF reply.kind = "null" \/ reply.content = <<>>
    THEN parseMatch(<<"{", "}">>, <<>>)
    ELSE parseMatch(jsonMatch(reply.content), reply.members)

\* the handler after the model call
extractParsed(F, req, reply, id, parsed) ==
    IF ~parsed.ok
    THEN Outcome([op |-> "extract", status |-> 500, req |-> req,
                  error |-> "Failed to parse extraction results"],
                 F, <<>>, <<[fn |-> "model", reply |-> reply]>>)
    ELSE Outcome([op |-> "extract", status |-> 200, req |-> req,
                  ticket |-> buildTicket(id, req.imageUrl, parsed.fields)],
                 F, <<>>, <<[fn |-> "model", reply |-> reply]>>)

\* the handler from the model call on
extractCalled(F, req, reply, id) ==
    IF reply.kind = "throw"
    THEN Outcome([op |-> "extract", status |-> 500, req |-> req,
                  error |-> "model call failed"], F, <<>>,
                 <<[fn |-> "model", reply |-> reply]>>)
    ELSE extractParsed(F, req, reply, id, parseReply(reply))

\* "Read image file" for a URL under /uploads/; readFileSync of a directory throws
extractStored(D, F, req, reply, id, filePath) ==
    IF ~existsSync(D, F, filePath)
    THEN Outcome([op |-> "extract", status |-> 404, req |-> req,
                  error |-> "Image not found"], F, <<>>, <<>>)
    ELSE IF filePath \in D
    THEN Outcome([op |-> "extract", status |-> 500, req |-> req,
                  error |-> "EISDIR"], F, <<>>, <<>>)
    ELSE extractCalled(F, req, reply, id)

extract(D, F, key, req, reply, id) ==
    IF req.imageUrl = <<>>
    THEN Outcome([op |-> "extract", status |-> 400, req |-> req,
                  error |-> "No image URL provided"], F, <<>>, <<>>)
    ELSE IF ~key
    THEN Outcome([op |-> "extract", status |-> 500, req |-> req,
                  error |-> "OPENROUTER_API_KEY not configured"], F, <<>>, <<>>)
    ELSE IF startsWith(req.imageUrl, str_uploads)
    THEN extractStored(D, F, req, reply, id,
                       under(<<replace(req.imageUrl, str_uploads, <<>>)>>))
    ELSE extractCalled(F, req, reply, id)

\* the loop body with a catch that records nothing
batchParsedSilent(acc, item, parsed) ==
    IF ~parsed.ok
    THEN [acc EXCEPT !.calls = Append(@, [fn |-> "model", reply |-> item.reply])]
    ELSE [acc EXCEPT !.calls = Append(@, [fn |-> "model", reply |-> item.reply]),
                     !.tickets = Append(@, buildTicket(item.id, item.imageUrl,
                                                       parsed.fields))]

\* the body of for (const imageUrl of imageUrls) after the model call
batchParsed(acc, item, parsed) ==
    IF ~parsed.ok
    THEN [acc EXCEPT !.calls = Append(@, [fn |-> "model", reply |-> item.reply]),
                     !.errors = Append(@, [imageUrl |-> item.imageUrl,
                                 error |-> "Failed to parse extraction results"])]
    ELSE [acc EXCEPT !.calls = Append(@, [fn |-> "model", reply |-> item.reply]),
                     !.tickets = Append(@, buildTicket(item.id, item.imageUrl,
                                                       parsed.fields))]

\* the body of for (const imageUrl of imageUrls) from the model call on
batchCalled(acc, item) ==
    IF item.reply.kind = "throw"
    THEN [acc EXCEPT !.calls = Append(@, [fn |-> "model", reply |-> item.reply]),
                     !.errors = Append(@, [imageUrl |-> item.imageUrl,
                                           error |-> "model call failed"])]
    ELSE batchParsed(acc, item, parseReply(item.reply))

\* "Read image file" in the loop
batchStored(D, F, acc, item, filePath) ==
    IF ~existsSync(D, F, filePath)
    THEN [acc EXCEPT !.errors = Append(@, [imageUrl |-> item.imageUrl,
                                           error |-> "Image not found"])]
    ELSE IF filePath \in D
    THEN [acc EXCEPT !.errors = Append(@, [imageUrl |-> item.imageUrl,
                                           error |-> "EISDIR"])]
    ELSE batchCalled(acc, item)

\* the body of for (const imageUrl of imageUrls), with its try and catch
batchOne(D, F, acc, item) ==
    IF startsWith(item.imageUrl, str_uploads)
    THEN batchStored(D, F, acc, item,
                     under(<<replace(item.imageUrl, str_uploads, <<>>)>>))
    ELSE batchCalled(acc, item)

\* for (const imageUrl of imageUrls); items[i] carries the URL with the reply
\* and the random id its iteration draws
RECURSIVE batchLoop(_, _, _, _, _)
batchLoop(D, F, acc, items, i) ==
    IF i > Len(items) THEN acc
    ELSE batchLoop(D, F, batchOne(D, F, acc, items[i]), items, i + 1)

batchOutcome(F, req, r) ==
    Outcome([op |-> "extract-batch", status |-> 200, req |-> req,
             tickets |-> r.tickets, errors |-> r.errors], F, <<>>, r.calls)

extractBatch(D, F, req, items) ==
    IF Len(items) = 0
    THEN Outcome([op |-> "extract-batch", status |-> 400, req |-> req,
                  error |-> "No image URLs provided"], F, <<>>, <<>>)
    ELSE batchOutcome(F, req,
             batchLoop(D, F, [tickets |-> <<>>, errors |-> <<>>, calls |-> <<>>],
                       items, 1))

\* "Add each image": readFileSync of a directory throws
readsDirectory(D, images) ==
    \E i \in 1..Len(images) :
        /\ startsWith(images[i], str_uploads)
        /\ under(<<replace(images[i], str_uploads, <<>>)>>) \in D

analyze(D, F, key, req, reply) ==
    IF Len(req.images) = 0
    THEN Outcome([op |-> "analyze", status |-> 400, req |-> req,
                  error |-> "No images provided"], F, <<>>, <<>>)
    ELSE IF ~key
    THEN Outcome([op |-> "analyze", status |-> 500, req |-> req,
                  error |-> "OPENROUTER_API_KEY not configured"], F, <<>>, <<>>)
    ELSE IF readsDirectory(D, req.images)
    THEN Outcome([op |-> "analyze", status |-> 500, req |-> req,
                  error |-> "EISDIR"], F, <<>>, <<>>)
    ELSE IF reply.kind = "throw"
    THEN Outcome([op |-> "analyze", status |-> 500, req |-> req,
                  error |-> "model call failed"], F, <<>>,
                 <<[fn |-> "model", reply |-> reply]>>)
    ELSE Outcome([op |-> "analyze", status |-> 200, req |-> req,
                  analysis |-> IF reply.kind = "null" \/ reply.content = <<>>
                               THEN <<"No analysis available">>
                               ELSE reply.content],
                 F, <<>>, <<[fn |-> "model", reply |-> reply]>>)

----------------------------------------------------------------------------
(* Requests to the extraction engine *)

ModelKeys == {"ticketNumber", "date", "notes"}

Confidences == {0 - 10, 0, 60, 79, 80, 100, 120}

FieldValues ==
    {FieldNothing, FieldNull, FieldObject("v", JsonString), FieldObject("", JsonNothing)}
        \cup {FieldObject("v", JsonNumber(c)) : c \in Confidences}

\* the objects the model's JSON decodes to: the three keys with any of the
\* values, and one with a key that is no ticket field
ExtractMembers ==
    [ModelKeys -> FieldValues]
        \cup {[k \in {"ticketNumber", "extra"} |-> FieldObject("v", JsonNumber(100))]}

highMembers == [k \in ModelKeys |-> FieldObject("v", JsonNumber(100))]
lowMembers ==
    [k \in ModelKeys |->
        IF k = "ticketNumber" THEN FieldObject("v", JsonNumber(80))
        ELSE IF k = "date" THEN FieldNothing
        ELSE FieldObject("v", JsonNumber(60))]

\* the texts around the JSON: fenced, with stray braces, without any block
Contents ==
    { <<>>, <<"x">>, <<"{", "}">>, <<"x", "{", "m", "}", "x">>, <<"{", "x", "}">>,
      <<"{", "m", "}", "x", "{", "m", "}">>, <<"}", "x", "{">>, <<"{", "m">> }

ExtractReplies ==
    {Throws, NoContent}
        \cup {Json(<<"{", "m", "}">>, m) : m \in ExtractMembers}
        \cup {Json(c, highMembers) : c \in Contents}

FewReplies ==
    {Throws, Json(<<"{", "m", "}">>, lowMembers), Json(<<"x">>, highMembers)}

TicketIds == {"t1", "t2"}

url_a == url(<<"s", "1">>, str_originals, name_a)                \* a stored image
url_none == url(<<"s", "1">>, str_originals, <<"x", ".", "p", "n", "g">>)
url_dir == url(<<"s", "1">>, str_originals, <<>>)
url_data == <<"d", "a", "t", "a", ":">>                      \* a data URL

ExtractUrls == {urlOfPath(p) : p \in DOMAIN files} \cup {url_none, url_dir, url_data, <<>>}

\* POST /api/extract
Extract ==
    \E imageUrl \in ExtractUrls, id \in TicketIds :
        \E reply \in IF imageUrl = url_a /\ id = "t1" THEN ExtractReplies
                     ELSE FewReplies :
            /\ Commit(extract(dirs, files, apiKey, [imageUrl |-> imageUrl], reply, id))
            /\ UNCHANGED <<apiKey, dirs, editedTickets, currentIndex, later>>

MaxBatch == 3       \* image URLs in one extract-batch request

BatchItems ==
    { [imageUrl |-> url_a, reply |-> Json(<<"{", "m", "}">>, highMembers), id |-> "t1"],
      [imageUrl |-> url_data, reply |-> Json(<<"x", "{", "m", "}">>, lowMembers),
       id |-> "t2"],
      [imageUrl |-> url_none, reply |-> Throws, id |-> "t1"],
      [imageUrl |-> url_a, reply |-> Throws, id |-> "t1"],
      [imageUrl |-> url_a, reply |-> Json(<<"{", "x", "}">>, highMembers), id |-> "t1"],
      [imageUrl |-> url_dir, reply |-> Throws, id |-> "t1"] }

\* POST /api/extract-batch
ExtractBatch ==
    \E n \in 0..MaxBatch :
        \E items \in [1..n -> BatchItems] :
            /\ Commit(extractBatch(dirs, files,
                                   [imageUrls |-> [i \in 1..n |-> items[i].imageUrl]],
                                   items))
            /\ UNCHANGED <<apiKey, dirs, editedTickets, currentIndex, later>>

AnalyzeRequests == {<<>>, <<url_a>>, <<url_none, url_data>>, <<url_a, url_dir>>}

\* POST /api/analyze
Analyze ==
    \E images \in AnalyzeRequests, reply \in {Throws, NoContent, Text(<<"x">>)} :
        /\ Commit(analyze(dirs, files, apiKey, [images |-> images], reply))
        /\ UNCHANGED <<apiKey, dirs, editedTickets, currentIndex, later>>

----------------------------------------------------------------------------
(* TicketReview component *)

\* case 'ArrowLeft', case 'k'
PreviousTicket ==
    /\ Len(editedTickets) > 0
    /\ currentIndex' = Max({0, currentIndex - 1})
    /\ UNCHANGED <<apiKey, dirs, files, resp, writes, calls, editedTickets, later>>

\* case 'ArrowRight', case 'j'
NextTicket ==
    /\ Len(editedTickets) > 0
    /\ currentIndex' = Min({Len(editedTickets) - 1, currentIndex + 1})
    /\ UNCHANGED <<apiKey, dirs, files, resp, writes, calls, editedTickets, later>>

ReviewFields == {"ticketNumber", "date", "notes"}

handleFieldChange ==
    \E field \in ReviewFields, value \in {"w"} :
        /\ Len(editedTickets) > 0
        /\ editedTickets' =
              [editedTickets EXCEPT ![currentIndex + 1].fields[field] =
                  [@ EXCEPT !.value = value, !.needsReview = FALSE]]
        /\ UNCHANGED <<apiKey, dirs, files, resp, writes, calls, currentIndex, later>>

handleApprove ==
    /\ Len(editedTickets) > 0
    /\ editedTickets' = [editedTickets EXCEPT ![currentIndex + 1].status = "approved"]
    /\ currentIndex' = IF currentIndex < Len(editedTickets) - 1
                       THEN currentIndex + 1 ELSE currentIndex
    /\ UNCHANGED <<apiKey, dirs, files, resp, writes, calls, later>>

handleFlag ==
    /\ Len(editedTickets) > 0
    /\ editedTickets' = [editedTickets EXCEPT ![currentIndex + 1].status = "flagged"]
    /\ UNCHANGED <<apiKey, dirs, files, resp, writes, calls, currentIndex, later>>

----------------------------------------------------------------------------
(* Specifications *)

\* The session store: sessions are created and deleted, files are uploaded
Next == CreateSession \/ DeleteSession \/ Upload

Spec == Init /\ [][Next]_vars

\* The store the API requests are served from: two sessions after one upload
\* each; the first holds an image, an image whose name has MaxNameLen
\* characters and an archive, the second an image, a file uploaded under an
\* `_oriented` name and a file named as an image that is none
name_oriented == <<"a">> \o str_oriented \o <<".", "p", "n", "g">>
name_junk == <<"j", ".", "p", "n", "g">>

ApiDirs ==
    createSessionDir(createSessionDir({<<>>, SubSeq(UploadRoot, 1, 1), UploadRoot},
                                      <<"s", "1">>), <<"s", "2">>)

ApiUpload1 ==
    << File(name_a, "image/png", Image(1)),
       File(name_long, "image/png", Image(2)),
       File(name_zip, "application/zip", Archive(1, ZipEntries)) >>

ApiUpload2 ==
    << File(name_a, "image/png", Image(3)),
       File(name_oriented, "image/png", Image(4)),
       File(name_junk, "image/png", Raw(5)) >>

ApiFiles ==
    upload(ApiDirs, upload(ApiDirs, <<>>, <<"s", "1">>, ApiUpload1, <<>>).files,
           <<"s", "2">>, ApiUpload2, <<>>).files

InitApi ==
    /\ apiKey \in BOOLEAN
    /\ dirs = ApiDirs
    /\ files = ApiFiles
    /\ resp = [op |-> "listen", status |-> 200]
    /\ writes = <<>>
    /\ calls = <<>>
    /\ editedTickets = <<>>
    /\ currentIndex = 0
    /\ Quiet

\* One request to the orientation, extraction and analysis endpoints
Orienting == resp.op = "listen" /\ Orient
OrientingAll == resp.op = "listen" /\ OrientAll
Extracting == resp.op = "listen" /\ Extract
ExtractingBatch == resp.op = "listen" /\ ExtractBatch
Analyzing == resp.op = "listen" /\ Analyze

NextApi == Orienting \/ OrientingAll \/ Extracting \/ ExtractingBatch \/ Analyzing

SpecApi == InitApi /\ [][NextApi]_vars

\* The review of the tickets of a batch
MaxTickets == 2     \* tickets under review

ReviewTickets ==
    { buildTicket("t1", url_a, lowMembers), buildTicket("t2", url_data, highMembers) }

InitReview ==
    /\ apiKey = FALSE
    /\ dirs = {<<>>, SubSeq(UploadRoot, 1, 1), UploadRoot}
    /\ files = <<>>
    /\ resp = [op |-> "listen", status |-> 200]
    /\ writes = <<>>
    /\ calls = <<>>
    /\ \E n \in 1..MaxTickets : editedTickets \in [1..n -> ReviewTickets]
    /\ currentIndex = 0
    /\ Quiet

NextReview ==
    PreviousTicket \/ NextTicket \/ handleFieldChange \/ handleApprove \/ handleFlag

SpecReview == InitReview /\ [][NextReview]_vars

\* The life of a session: sessions are created and deleted, and between the
\* two are uploaded to, sent converted images, listed and oriented
MaxStored == 2      \* regular files in the store

str_png == <<"i", "m", "a", "g", "e", "/", "p", "n", "g">>       \* 'image/png'
name_p == <<"p", ".", "p", "n", "g">>                            \* p.png
name_q == <<"d", "/", "q", " ", "r", ".", "p", "n", "g">>        \* "d/q r.png"

\* `data:${mimeType};base64,${payload}`
dataUrlOf(mimeType, payload) == str_data \o mimeType \o str_base64 \o payload

ConvertedImage(name, dataUrl) == [name |-> name, dataUrl |-> dataUrl]

image_p1 == ConvertedImage(Str(name_p), Str(dataUrlOf(str_png, <<"I", "1">>)))
image_p2 == ConvertedImage(Str(name_p), Str(dataUrlOf(str_png, <<"I", "2">>)))
image_q == ConvertedImage(Str(name_q), Str(dataUrlOf(str_png, <<"x", "y">>)))
image_text == ConvertedImage(Str(name_p), Str(<<"I", "1">>))
image_empty == ConvertedImage(Str(name_p), Str(dataUrlOf(str_png, <<>>)))
image_nomime == ConvertedImage(Str(name_p), Str(dataUrlOf(<<>>, <<"I", "1">>)))
image_nourl == ConvertedImage(Str(name_p), Undefined)
image_number == ConvertedImage(Str(name_p), Number)
image_noname == ConvertedImage(Undefined, Str(dataUrlOf(str_png, <<"I", "1">>)))
image_slash == ConvertedImage(Str(<<"/">>), Str(dataUrlOf(str_png, <<"I", "1">>)))
image_dir == ConvertedImage(Str(<<"d", "/">>), Str(dataUrlOf(str_png, <<"I", "1">>)))

\* the bodies of the converted requests: no list, the empty list, lists of
\* valid entries, lists with one malformed entry alone, first, in the middle
\* or last, and valid entries named "/" and "d/"
ConvertedBodies ==
    { Undefined }
        \cup { [t |-> "array", items |-> items] : items \in
                 { <<>>, <<image_p1>>, <<image_q>>, <<image_p1, image_p2>>,
                   <<image_text>>, <<image_empty, image_p1>>,
                   <<image_p1, image_nomime, image_p2>>,
                   <<image_nourl>>, <<image_p1, image_nourl, image_p2>>,
                   <<image_p1, image_number>>, <<image_noname>>,
                   <<image_slash>>, <<image_dir>> } }

\* POST /api/sessions/:sessionId/converted
SaveConverted ==
    \E sessionId \in SessionIds, images \in ConvertedBodies :
        /\ Commit(saveConverted(dirs, files, [sessionId |-> sessionId, images |-> images]))
        /\ Cardinality(DOMAIN files') <= MaxStored
        /\ UNCHANGED <<apiKey, dirs, editedTickets, currentIndex, later>>

\* GET /api/sessions/:sessionId
GetSession ==
    \E sessionId \in RequestIds :
        \E l1 \in readdirSync(files, under(<<sessionId, Subdirs[1]>>)),
           l2 \in readdirSync(files, under(<<sessionId, Subdirs[2]>>)),
           l3 \in readdirSync(files, under(<<sessionId, Subdirs[3]>>)) :
            /\ Commit(getSession(dirs, files, [sessionId |-> sessionId], <<l1, l2, l3>>))
            /\ UNCHANGED <<apiKey, dirs, editedTickets, currentIndex, later>>

FewUploads ==
    { <<>>,
      <<File(name_a, "image/png", Image(1))>>,
      <<File(name_a1, "image/png", Image(2))>>,
      <<File(name_z, "application/x-zip-compressed", Archive(2, PlainEntries))>>,
      <<File(name_a, "image/png", Image(1)),
        File(name_bad, "application/zip", Raw(2))>> }

\* POST /api/sessions/:sessionId/upload, for few file lists
UploadFew ==
    \E sessionId \in SessionIds, reqFiles \in FewUploads :
        /\ Commit(upload(dirs, files, sessionId, reqFiles,
                         [sessionId |-> sessionId, files |-> reqFiles]))
        /\ Cardinality(DOMAIN files') <= MaxStored
        /\ UNCHANGED <<apiKey, dirs, editedTickets, currentIndex, later>>

StoredReplies == {Text(<<"0">>), Text(<<"9", "0">>)}

\* POST /api/sessions/:sessionId/orient, for the URLs of the stored files and
\* none
OrientStored ==
    \E sessionId \in SessionIds, reply \in StoredReplies,
       imageUrl \in {urlOfPath(p) : p \in DOMAIN files}
                        \cup {<<>>, url(<<"s", "1">>, str_originals, name_a)} :
        /\ Commit(orient(dirs, files, apiKey,
                         [sessionId |-> sessionId, imageUrl |-> imageUrl], reply))
        /\ Cardinality(DOMAIN files') <= MaxStored
        /\ UNCHANGED <<apiKey, dirs, editedTickets, currentIndex, later>>

\* POST /api/sessions/:sessionId/orient-all
OrientAllStored ==
    \E sessionId \in SessionIds :
        \E l1 \in readdirSync(files, under(<<sessionId, Subdirs[1]>>)),
           l2 \in readdirSync(files, under(<<sessionId, Subdirs[2]>>)),
           l3 \in readdirSync(files, under(<<sessionId, Subdirs[3]>>)),
           replyOf \in [imagesOf(files, sessionId) -> StoredReplies] :
            /\ Commit(orientAll(dirs, files, apiKey, [sessionId |-> sessionId],
                                <<l1, l2, l3>>, replyOf))
            /\ Cardinality(DOMAIN files') <= MaxStored
            /\ UNCHANGED <<apiKey, dirs, editedTickets, currentIndex, later>>

NextSession ==
    \/ CreateSession \/ DeleteSession \/ UploadFew \/ SaveConverted
    \/ GetSession \/ OrientStored \/ OrientAllStored

\* the server with its key, before the first session
InitSession ==
    /\ apiKey = TRUE
    /\ dirs = {<<>>, SubSeq(UploadRoot, 1, 1), UploadRoot}
    /\ files = <<>>
    /\ resp = [op |-> "listen", status |-> 200]
    /\ writes = <<>>
    /\ calls = <<>>
    /\ editedTickets = <<>>
    /\ currentIndex = 0
    /\ Quiet

SpecSession == InitSession /\ [][NextSession]_vars

----------------------------------------------------------------------------
(* Session identifiers *)

MaxClock == 2       \* seconds the clock advances
MaxCreated == 3     \* sessions created

HexChars == DigitChars \o <<"a", "b", "c", "d", "e", "f">>

\* Buffer.prototype.toString('hex')
toHex(bytes) ==
    IF bytes = <<>> THEN <<>>
    ELSE <<HexChars[(bytes[1] \div 16) + 1], HexChars[(bytes[1] % 16) + 1]>>
             \o [i \in 1..(2 * (Len(bytes) - 1)) |->
                    HexChars[IF i % 2 = 1 THEN (bytes[(i + 1) \div 2 + 1] \div 16) + 1
                             ELSE (bytes[i \div 2 + 1] % 16) + 1]]

\* a number of two digits, as the Date methods print it
twoDigits(n) == IF n < 10 THEN <<"0">> \o toString(n) ELSE toString(n)

\* HH:MM:SS of an instant
clockOf(t) ==
    twoDigits((t % 86400) \div 3600) \o <<":">> \o twoDigits((t % 3600) \div 60)
        \o <<":">> \o twoDigits(t % 60)

\* Date.prototype.toISOString, for the instants of January 1970
toISOString(t) ==
    <<"1", "9", "7", "0", "-", "0", "1", "-">> \o twoDigits((t \div 86400) + 1)
        \o <<"T">> \o clockOf(t) \o <<".", "0", "0", "0", "Z">>

\* Date.prototype.toTimeString, the zone of the process being UTC
toTimeString(t) ==
    clockOf(t) \o <<" ", "G", "M", "T", "+", "0", "0", "0", "0", " ",
                    "(", "U", "T", "C", ")">>

\* String.prototype.replace(/c/g, r) for one character
replaceAll(s, c, r) == [i \in 1..Len(s) |-> IF s[i] = c THEN r ELSE s[i]]

\* `${date}_${time}_${random}`
generateSessionId(t, bytes) ==
    LET date == split(toISOString(t), "T")[1]
        time == replaceAll(split(toTimeString(t), " ")[1], ":", "-")
        random == toHex(bytes)
    IN date \o <<"_">> \o time \o <<"_">> \o random

\* what crypto.randomBytes(4) gives
RandomBytes == { <<0, 0, 0, 0>>, <<171, 205, 0, 1>> }

\* POST /api/sessions, with the sessionId the clock and randomBytes give
CreateSessionNow ==
    \E bytes \in RandomBytes :
        LET sessionId == generateSessionId(now, bytes) IN
        /\ Len(created) < MaxCreated
        /\ dirs' = createSessionDir(dirs, sessionId)
        /\ created' = created \o <<sessionId>>
        /\ Commit(Outcome([op |-> "create", status |-> 200, sessionId |-> sessionId],
                          files, <<>>, <<>>))
        /\ UNCHANGED <<apiKey, editedTickets, currentIndex, now, handlers, loop, client>>

\* a second passes
Tick ==
    /\ now < MaxClock
    /\ now' = now + 1
    /\ UNCHANGED <<apiKey, dirs, files, resp, writes, calls, editedTickets,
                   currentIndex, created, handlers, loop, client>>

NextCreate == CreateSessionNow \/ Tick

SpecCreate == InitSession /\ [][NextCreate]_vars

----------------------------------------------------------------------------
(* Upload handlers in flight.  The handler is an async function: it runs   *)
(* without interruption up to `await extractZip(file.buffer)`, where other  *)
(* handlers run, and from there to the next await or to its response.       *)

MaxRequests == 2    \* upload requests in flight or answered

\* for (const file of files), from file i up to the next await: `at` is the
\* index of the archive awaited, 0 when the loop has ended or thrown
RECURSIVE uploadRun(_, _, _, _, _)
uploadRun(D, acc, sessionId, reqFiles, i) ==
    IF i > Len(reqFiles) \/ ~acc.ok THEN [acc |-> acc, at |-> 0]
    ELSE IF isZip(reqFiles[i]) THEN [acc |-> acc, at |-> i]
    ELSE uploadRun(D, uploadOne(D, acc, sessionId, reqFiles[i]), sessionId, reqFiles, i + 1)

\* the handler after a stretch r of its loop: suspended, or answered
handlerAfter(req, r, during) ==
    [req |-> req, at |-> r.at, during |-> during,
     status |-> IF r.at > 0 THEN 0 ELSE IF r.acc.ok THEN 200 ELSE 500,
     writes |-> r.acc.writes, results |-> r.acc.results]

\* the handler from its start to its first await or to its response
uploadStart(D, F, req, during) ==
    IF ~existsSync(D, F, under(<<req.sessionId>>))
    THEN [files |-> F,
          handler |-> [req |-> req, at |-> 0, during |-> during, status |-> 404,
                       writes |-> <<>>, results |-> <<>>]]
    ELSE IF Len(req.files) = 0
    THEN [files |-> F,
          handler |-> [req |-> req, at |-> 0, during |-> during, status |-> 400,
                       writes |-> <<>>, results |-> <<>>]]
    ELSE LET r == uploadRun(D, [ok |-> TRUE, files |-> F, writes |-> <<>>,
                                results |-> <<>>],
                            req.sessionId, req.files, 1)
         IN [files |-> r.acc.files, handler |-> handlerAfter(req, r, during)]

\* the handler from the await it is suspended at to the next or to its response
uploadResume(D, F, h) ==
    LET r == uploadRun(D,
                 uploadZip(D, [ok |-> TRUE, files |-> F, writes |-> h.writes,
                               results |-> h.results],
                           h.req.sessionId, h.req.files[h.at]),
                 h.req.sessionId, h.req.files, h.at + 1)
    IN [files |-> r.acc.files, handler |-> handlerAfter(h.req, r, h.during)]

\* res.json / res.status(...).json of a handler
handlerResponse(h) ==
    IF h.status = 200
    THEN [op |-> "upload", status |-> 200, req |-> h.req, files |-> h.results]
    ELSE [op |-> "upload", status |-> h.status, req |-> h.req]

\* what a stretch s of handler number n leaves
CommitStretch(n, s) ==
    /\ files' = s.files
    /\ handlers' = [k \in 1..Max({n, Len(handlers)}) |->
                        IF k = n THEN s.handler ELSE handlers[k]]
    /\ IF s.handler.status = 0
       THEN UNCHANGED <<resp, writes, calls>>
       ELSE resp' = handlerResponse(s.handler) /\ writes' = s.handler.writes
                /\ calls' = <<>>

suspended == {n \in 1..Len(handlers) : handlers[n].status = 0}

name_c == <<"c", ".", "z", "i", "p">>                            \* c.zip

\* the file lists of the concurrent requests: an image, an archive with that
\* image, the archive followed by the image, and a broken archive
RaceUploads ==
    { <<File(name_a, "image/png", Image(1))>>,
      <<File(name_c, "application/zip", Archive(2, PlainEntries))>>,
      <<File(name_c, "application/zip", Archive(2, PlainEntries)),
        File(name_a, "image/png", Image(3))>>,
      <<File(name_bad, "application/zip", Raw(2))>> }

\* POST /api/sessions/:sessionId/upload: the request arrives
UploadArrives ==
    \E sessionId \in SessionIds, reqFiles \in RaceUploads :
        /\ Len(handlers) < MaxRequests
        /\ CommitStretch(Len(handlers) + 1,
                         uploadStart(dirs, files,
                                     [sessionId |-> sessionId, files |-> reqFiles],
                                     suspended))
        /\ UNCHANGED <<apiKey, dirs, editedTickets, currentIndex, now, created, loop,
                       client>>

\* the promise of extractZip settles and the handler goes on
UploadResumes ==
    \E n \in suspended :
        /\ CommitStretch(n, uploadResume(dirs, files, handlers[n]))
        /\ UNCHANGED <<apiKey, dirs, editedTickets, currentIndex, now, created, loop,
                       client>>

NextRace == UploadArrives \/ UploadResumes

\* the server with one session, before the first upload
InitRace ==
    /\ apiKey = TRUE
    /\ dirs = createSessionDir({<<>>, SubSeq(UploadRoot, 1, 1), UploadRoot},
                               <<"s", "1">>)
    /\ files = <<>>
    /\ resp = [op |-> "listen", status |-> 200]
    /\ writes = <<>>
    /\ calls = <<>>
    /\ editedTickets = <<>>
    /\ currentIndex = 0
    /\ Quiet

SpecRace == InitRace /\ [][NextRace]_vars

----------------------------------------------------------------------------

(* The loops of extract-batch and orient-all, call by call.  Each handler   *)
(* runs up to the `await` of a model call, which is then in flight, and     *)
(* goes on when the model has answered.                                     *)

\* the loop body of item i of the request: batchOne or orientAllOne
bodyOf(D, F, key, op, acc, item) ==
    IF op = "extract-batch" THEN batchOne(D, F, acc, item)
    ELSE orientAllOne(D, key, acc, item.sessionId, item.subdir, item.filename,
                      item.filePath, (item.filePath :> item.reply))

\* the loop that goes on after a thrown exception
goesOnAlways(op, acc) == TRUE

\* a thrown exception leaves the loop of orient-all; that of extract-batch
\* catches inside the body
goesOn(op, acc) == op = "extract-batch" \/ acc.ok

\* the items whose body calls the model
calling(D, F, key, op, acc, items) ==
    {i \in 1..Len(items) :
        \E c \in Range(bodyOf(D, F, key, op, [acc EXCEPT !.calls = <<>>],
                              items[i]).calls) : c.fn = "model"}

\* every model call of the rest of the request at once
callsAll(callers, k) == {i \in callers : i >= k}

\* the model calls sent from item k on before the handler awaits: that of
\* the first item that makes one
callsFrom(callers, k) ==
    IF \E i \in callers : i >= k THEN {Min({i \in callers : i >= k})} ELSE {}

\* the bodies of items from..to, none of which calls the model
RECURSIVE quietRun(_, _, _, _, _, _, _, _)
quietRun(D, F, key, op, acc, items, from, to) ==
    IF from > to \/ ~goesOn(op, acc) THEN [acc |-> acc, done |-> from - 1]
    ELSE quietRun(D, F, key, op, bodyOf(D, F, key, op, acc, items[from]),
                  items, from + 1, to)

\* the handler from item `from` on with the calls `sent` in flight: up to the
\* next await
loopFrom(D, F, key, L, acc, from, sent) ==
    LET r == quietRun(D, F, key, L.op, acc, L.items, from,
                      IF sent = {} THEN Len(L.items) ELSE Min(sent) - 1)
    IN [L EXCEPT !.acc = r.acc, !.done = r.done,
                 !.inflight = IF goesOn(L.op, r.acc) THEN sent ELSE {}]

\* the handler from its first item on
loopStart(D, F, key, L) ==
    loopFrom(D, F, key, L, L.acc, 1,
             callsFrom(calling(D, F, key, L.op, L.acc, L.items), 1))

\* the handler from the answer to the call of item k on
loopAnswered(D, F, key, L, k, item) ==
    LET acc == bodyOf(D, F, key, L.op, L.acc, item)
        files_ == IF L.op = "extract-batch" THEN F ELSE acc.files
    IN IF ~goesOn(L.op, acc)
       THEN [L EXCEPT !.acc = acc, !.done = k, !.inflight = {}]
       ELSE loopFrom(D, files_, key, [L EXCEPT !.items[k] = item], acc, k + 1,
                     (L.inflight \ {k})
                         \cup callsFrom(calling(D, files_, key, L.op, acc, L.items)
                                            \ L.inflight, k + 1))

\* the response of a loop that awaits nothing more
loopOutcome(F, L) ==
    IF L.op = "extract-batch" THEN batchOutcome(F, L.req, L.acc)
    ELSE orientAllOutcome(L.req, L.acc)

\* what a stretch of the handler leaves: the loop, and its response when
\* no call is in flight
CommitLoop(L) ==
    /\ loop' = L
    /\ IF L.inflight = {}
       THEN Commit(loopOutcome(files, L))
       ELSE /\ files' = IF L.op = "extract-batch" THEN files ELSE L.acc.files
            /\ UNCHANGED <<resp, writes, calls>>

\* the files of a listing, in the order of enumeration of the handler
filesListed(sessionId, listing) ==
    LET of(k) == [i \in 1..Len(listing[k]) |->
                    [sessionId |-> sessionId, subdir |-> Subdirs[k],
                     filename |-> listing[k][i],
                     filePath |-> under(<<sessionId, Subdirs[k], listing[k][i]>>),
                     reply |-> Text(<<"0">>)]]
    IN of(1) \o of(2) \o of(3)

\* POST /api/extract-batch: the request arrives
BatchArrives ==
    \E n \in 0..MaxBatch :
        \E items \in [1..n -> BatchItems] :
            LET req == [imageUrls |-> [i \in 1..n |-> items[i].imageUrl]] IN
            /\ loop = NoLoop
            /\ IF n = 0
               THEN Commit(extractBatch(dirs, files, req, items)) /\ loop' = loop
               ELSE CommitLoop(loopStart(dirs, files, apiKey,
                        [NoLoop EXCEPT !.op = "extract-batch", !.req = req,
                                       !.items = items,
                                       !.acc = [tickets |-> <<>>, errors |-> <<>>,
                                                calls |-> <<>>]]))
            /\ UNCHANGED <<apiKey, dirs, editedTickets, currentIndex, now, created,
                           handlers, client>>

\* POST /api/sessions/:sessionId/orient-all: the request arrives
OrientAllArrives ==
    \E sessionId \in RequestIds :
        \E l1 \in readdirSync(files, under(<<sessionId, Subdirs[1]>>)),
           l2 \in readdirSync(files, under(<<sessionId, Subdirs[2]>>)),
           l3 \in readdirSync(files, under(<<sessionId, Subdirs[3]>>)) :
            LET req == [sessionId |-> sessionId] IN
            /\ loop = NoLoop
            /\ IF ~existsSync(dirs, files, under(<<sessionId>>))
               THEN Commit(orientAll(dirs, files, apiKey, req, <<l1, l2, l3>>, <<>>))
                        /\ loop' = loop
               ELSE CommitLoop(loopStart(dirs, files, apiKey,
                        [NoLoop EXCEPT !.op = "orient-all", !.req = req,
                                       !.items = filesListed(sessionId, <<l1, l2, l3>>),
                                       !.acc = [ok |-> TRUE, files |-> files,
                                                writes |-> <<>>, calls |-> <<>>,
                                                results |-> <<>>]]))
            /\ UNCHANGED <<apiKey, dirs, editedTickets, currentIndex, now, created,
                           handlers, client>>

\* the model answers the call of item k and the handler goes on
ModelAnswers ==
    \E k \in loop.inflight :
        \E reply \in IF loop.op = "extract-batch" THEN {loop.items[k].reply}
                     ELSE BatchReplies :
            /\ CommitLoop(loopAnswered(dirs, files, apiKey, loop, k,
                                       [loop.items[k] EXCEPT !.reply = reply]))
            /\ UNCHANGED <<apiKey, dirs, editedTickets, currentIndex, now, created,
                           handlers, client>>

NextLoop == BatchArrives \/ OrientAllArrives \/ ModelAnswers

\* the store of the API requests after one more upload to the second session
LoopFiles ==
    upload(ApiDirs, ApiFiles, <<"s", "2">>,
           <<File(name_p, "image/png", Image(6))>>, <<>>).files

InitLoop ==
    /\ apiKey \in BOOLEAN
    /\ dirs = ApiDirs
    /\ files = LoopFiles
    /\ resp = [op |-> "listen", status |-> 200]
    /\ writes = <<>>
    /\ calls = <<>>
    /\ editedTickets = <<>>
    /\ currentIndex = 0
    /\ Quiet

SpecLoop == InitLoop /\ [][NextLoop]_vars

----------------------------------------------------------------------------

(* Requests with parameters that are no session id.  Express decodes the    *)
(* :sessionId of the path, so that %2E%2E arrives as `..`.                  *)

str_dot == <<".">>                                               \* '.'
str_dotdot == <<".", ".">>                                       \* '..'

PathIds == SessionIds \cup {str_dot, str_dotdot}

\* DELETE /api/sessions/:sessionId, for any :sessionId
DeleteAny ==
    \E sessionId \in PathIds :
        /\ CommitDirs(deleteSession(dirs, files, sessionId, under(<<sessionId>>)))
        /\ UNCHANGED <<apiKey, editedTickets, currentIndex, later>>

\* POST /api/sessions/:sessionId/upload, for any :sessionId
UploadAny ==
    \E sessionId \in PathIds, reqFiles \in FewUploads :
        /\ Commit(upload(dirs, files, sessionId, reqFiles,
                         [sessionId |-> sessionId, files |-> reqFiles]))
        /\ Cardinality(DOMAIN files') <= MaxStored
        /\ UNCHANGED <<apiKey, dirs, editedTickets, currentIndex, later>>

\* POST /api/sessions/:sessionId/converted, for any :sessionId
SaveConvertedAny ==
    \E sessionId \in PathIds,
       images \in {[t |-> "array", items |-> <<image_p1>>],
                   [t |-> "array", items |-> <<image_q>>]} :
        /\ Commit(saveConverted(dirs, files, [sessionId |-> sessionId, images |-> images]))
        /\ Cardinality(DOMAIN files') <= MaxStored
        /\ UNCHANGED <<apiKey, dirs, editedTickets, currentIndex, later>>

NextPaths == CreateSession \/ DeleteAny \/ UploadAny \/ SaveConvertedAny

SpecPaths == InitSession /\ [][NextPaths]_vars

----------------------------------------------------------------------------

(* Repeated orient-all on one session *)

MaxOriented == 4    \* files in the session that is oriented again and again

\* the session after the upload of two images
RepeatFiles ==
    upload(createSessionDir({<<>>, SubSeq(UploadRoot, 1, 1), UploadRoot}, <<"s", "1">>),
           <<>>, <<"s", "1">>,
           <<File(name_a, "image/png", Image(1)), File(name_p, "image/png", Image(2))>>,
           <<>>).files

\* the uploaded images: the files of the session that carry no `_oriented`
RepeatOriginals == DOMAIN RepeatFiles

InitRepeat ==
    /\ apiKey = TRUE
    /\ dirs = createSessionDir({<<>>, SubSeq(UploadRoot, 1, 1), UploadRoot},
                               <<"s", "1">>)
    /\ files = RepeatFiles
    /\ resp = [op |-> "listen", status |-> 200]
    /\ writes = <<>>
    /\ calls = <<>>
    /\ editedTickets = <<>>
    /\ currentIndex = 0
    /\ Quiet

\* POST /api/sessions/:sessionId/orient-all, once more
OrientAllAgain ==
    \E l1 \in readdirSync(files, under(<<<<"s", "1">>, Subdirs[1]>>)),
       replyOf \in [RepeatOriginals -> BatchReplies] :
        /\ Commit(orientAll(dirs, files, apiKey, [sessionId |-> <<"s", "1">>],
                            <<l1, <<>>, <<>>>>,
                            [p \in imagesOf(files, <<"s", "1">>) |->
                                IF p \in RepeatOriginals THEN replyOf[p]
                                ELSE Text(<<"0">>)]))
        /\ Cardinality(DOMAIN files') <= MaxOriented
        /\ UNCHANGED <<apiKey, dirs, editedTickets, currentIndex, later>>

NextRepeat == OrientAllAgain

SpecRepeat == InitRepeat /\ [][NextRepeat]_vars

----------------------------------------------------------------------------

(* FileUpload component.  A stored file is known by its URL, which the      *)
(* server gives once: the n-th file it stores for the component has URL n.  *)
(* An image URL is the URL of a file, or that of a saved page of it.        *)

MaxServed == 3      \* files uploaded through the component
MaxPages == 2       \* pages of a PDF

str_pdf == "application/pdf"

ImageUrl(file, page) == [file |-> file, page |-> page]

\* a SessionFile of the upload response as an UploadedFile
UploadedFile(fileUrl, mimeType) ==
    [url |-> fileUrl, mimeType |-> mimeType, isConverting |-> FALSE, pages |-> <<>>,
     analysis |-> <<>>, isAnalyzing |-> FALSE, analysisError |-> FALSE]

\* a promise a callback of the component waits for
Promise(kind, fileUrl, index, imageUrls, queue) ==
    [kind |-> kind, url |-> fileUrl, index |-> index, imageUrls |-> imageUrls,
     queue |-> queue]

\* processUploadedFiles: the entries pushed to newFiles
newFilesOf(sessionFiles) ==
    [i \in 1..Len(sessionFiles) |->
        IF sessionFiles[i].mimeType = str_pdf
        THEN [sessionFiles[i] EXCEPT !.isConverting = TRUE]
        ELSE sessionFiles[i]]

\* processUploadedFiles: the conversions started in the background
conversionsOf(sessionFiles) ==
    {Promise("convert", sessionFiles[i].url, 0, <<>>, <<>>) :
        i \in {i \in 1..Len(sessionFiles) : sessionFiles[i].mimeType = str_pdf}}

\* handleFiles after uploadFiles has resolved: processUploadedFiles(uploaded)
FilesUploaded ==
    \E n \in 1..2 :
        \E types \in [1..n -> {"image/png", str_pdf}] :
            LET uploaded == [i \in 1..n |-> UploadedFile(served + i, types[i])] IN
            /\ served + n <= MaxServed
            /\ served' = served + n
            /\ uploadedFiles' = uploadedFiles \o newFilesOf(uploaded)
            /\ promises' = promises \cup conversionsOf(uploaded)
            /\ UNCHANGED <<apiKey, dirs, files, resp, writes, calls, editedTickets,
                           currentIndex, now, created, handlers, loop>>

\* prev.map((f) => f.url === file.url ? change(f) : f)
mapUrl(prev, fileUrl, change(_)) ==
    [i \in 1..Len(prev) |-> IF prev[i].url = fileUrl THEN change(prev[i]) ELSE prev[i]]

\* the .then of convertPdfToImages, that resolved with n pages; the
\* component has its sessionId
ConversionResolves ==
    \E p \in promises, n \in 0..MaxPages :
        /\ p.kind = "convert"
        /\ promises' = (promises \ {p}) \cup
              (IF n > 0
               THEN {Promise("save", p.url, 0,
                             [i \in 1..n |-> ImageUrl(p.url, i)], <<>>)}
               ELSE {})
        /\ UNCHANGED <<apiKey, dirs, files, resp, writes, calls, editedTickets,
                       currentIndex, now, created, handlers, loop, uploadedFiles,
                       served>>

\* convertPdfToImages rejects: the promise of .then rejects, nobody hears
ConversionRejects ==
    \E p \in promises :
        /\ p.kind = "convert"
        /\ promises' = promises \ {p}
        /\ UNCHANGED <<apiKey, dirs, files, resp, writes, calls, editedTickets,
                       currentIndex, now, created, handlers, loop, uploadedFiles,
                       served>>

\* saveConvertedImages resolves with the saved pages
PagesSaved ==
    \E p \in promises :
        /\ p.kind = "save"
        /\ promises' = promises \ {p}
        /\ uploadedFiles' =
              mapUrl(uploadedFiles, p.url,
                     LAMBDA f : [f EXCEPT !.isConverting = FALSE, !.pages = p.imageUrls])
        /\ UNCHANGED <<apiKey, dirs, files, resp, writes, calls, editedTickets,
                       currentIndex, now, created, handlers, loop, served>>

\* saveConvertedImages rejects: the catch
PagesNotSaved ==
    \E p \in promises :
        /\ p.kind = "save"
        /\ promises' = promises \ {p}
        /\ uploadedFiles' =
              mapUrl(uploadedFiles, p.url, LAMBDA f : [f EXCEPT !.isConverting = FALSE])
        /\ UNCHANGED <<apiKey, dirs, files, resp, writes, calls, editedTickets,
                       currentIndex, now, created, handlers, loop, served>>

\* prev.filter((_, i) => i !== index)
filterIndex(prev, index) ==
    [i \in 1..(Len(prev) - 1) |-> IF i < index THEN prev[i] ELSE prev[i + 1]]

removeFile ==
    \E index \in 1..Len(uploadedFiles) :
        /\ uploadedFiles' = filterIndex(uploadedFiles, index)
        /\ UNCHANGED <<apiKey, dirs, files, resp, writes, calls, editedTickets,
                       currentIndex, now, created, handlers, loop, promises, served>>

getImageUrls(file) ==
    IF Len(file.pages) > 0 THEN file.pages
    ELSE IF file.mimeType = "image/png" THEN <<ImageUrl(file.url, 0)>>
    ELSE <<>>

\* the entries Analyze and Analyze All are offered for
analyzable(file) ==
    /\ Len(getImageUrls(file)) > 0
    /\ file.analysis = <<>> /\ ~file.isAnalyzing /\ ~file.isConverting

\* const updated = [...prev]; if (updated[index]) updated[index] = change(...)
setIndex(prev, index, change(_)) ==
    [i \in 1..Len(prev) |-> IF i = index THEN change(prev[i]) ELSE prev[i]]

\* analyzeFile(index) up to its await, for the imageUrls of the entry the
\* caller sees at index; `queue` is what analyzeAllFiles does after it
analyzeStarted(prev, P, index, imageUrls, queue) ==
    IF Len(imageUrls) = 0 THEN [uploadedFiles |-> prev, promises |-> P]
    ELSE [uploadedFiles |->
              setIndex(prev, index,
                       LAMBDA f : [f EXCEPT !.isAnalyzing = TRUE,
                                            !.analysisError = FALSE]),
          promises |-> P \cup {Promise("analyze", 0, index, imageUrls, queue)}]

\* the Analyze button of the selected entry
analyzeFile ==
    \E index \in 1..Len(uploadedFiles) :
        LET s == analyzeStarted(uploadedFiles, promises, index,
                                getImageUrls(uploadedFiles[index]), <<>>) IN
        /\ analyzable(uploadedFiles[index])
        /\ uploadedFiles' = s.uploadedFiles
        /\ promises' = s.promises
        /\ UNCHANGED <<apiKey, dirs, files, resp, writes, calls, editedTickets,
                       currentIndex, now, created, handlers, loop, served>>

\* filesToAnalyze of analyzeAllFiles: the indexes with the imageUrls of the
\* entries the render of the click shows
filesToAnalyze(shown) ==
    LET at == {i \in 1..Len(shown) : analyzable(shown[i])}
        nth(k) == CHOOSE i \in at : Cardinality({j \in at : j < i}) = k - 1
    IN [k \in 1..Cardinality(at) |->
           [index |-> nth(k), imageUrls |-> getImageUrls(shown[nth(k)])]]

\* for (const { index } of filesToAnalyze) await analyzeFile(index), from
\* the head of the queue on
analyzeNext(prev, P, queue) ==
    IF queue = <<>> THEN [uploadedFiles |-> prev, promises |-> P]
    ELSE analyzeStarted(prev, P, queue[1].index, queue[1].imageUrls, Tail(queue))

\* the Analyze All button
analyzeAllFiles ==
    LET s == analyzeNext(uploadedFiles, promises, filesToAnalyze(uploadedFiles)) IN
    /\ \E i \in 1..Len(uploadedFiles) : analyzable(uploadedFiles[i])
    /\ uploadedFiles' = s.uploadedFiles
    /\ promises' = s.promises
    /\ UNCHANGED <<apiKey, dirs, files, resp, writes, calls, editedTickets,
                   currentIndex, now, created, handlers, loop, served>>

\* analyzeImages resolves with the analysis of its images
AnalysisResolves ==
    \E p \in promises :
        LET s == analyzeNext(
                     setIndex(uploadedFiles, p.index,
                              LAMBDA f : [f EXCEPT !.analysis = p.imageUrls,
                                                   !.isAnalyzing = FALSE]),
                     promises \ {p}, p.queue) IN
        /\ p.kind = "analyze"
        /\ uploadedFiles' = s.uploadedFiles
        /\ promises' = s.promises
        /\ UNCHANGED <<apiKey, dirs, files, resp, writes, calls, editedTickets,
                       currentIndex, now, created, handlers, loop, served>>

\* analyzeImages rejects: the catch
AnalysisRejects ==
    \E p \in promises :
        LET s == analyzeNext(
                     setIndex(uploadedFiles, p.index,
                              LAMBDA f : [f EXCEPT !.isAnalyzing = FALSE,
                                                   !.analysisError = TRUE]),
                     promises \ {p}, p.queue) IN
        /\ p.kind = "analyze"
        /\ uploadedFiles' = s.uploadedFiles
        /\ promises' = s.promises
        /\ UNCHANGED <<apiKey, dirs, files, resp, writes, calls, editedTickets,
                       currentIndex, now, created, handlers, loop, served>>

NextUpload ==
    \/ FilesUploaded \/ ConversionResolves \/ ConversionRejects
    \/ PagesSaved \/ PagesNotSaved \/ removeFile
    \/ analyzeFile \/ analyzeAllFiles \/ AnalysisResolves \/ AnalysisRejects

SpecUpload == InitSession /\ [][NextUpload]_vars

\* every promise settles
SpecUploadFair ==
    /\ SpecUpload
    /\ WF_vars(ConversionResolves \/ ConversionRejects)
    /\ WF_vars(PagesSaved \/ PagesNotSaved)
    /\ WF_vars(AnalysisResolves \/ AnalysisRejects)

----------------------------------------------------------------------------

(* Properties of the deduplicating store *)

parentOf(p) == SubSeq(p, 1, Len(p) - 1)

\* the paths that exist before the k-th writeFileSync of the step
heldBefore(k) ==
    dirs \cup DOMAIN files \cup {writes'[j].finalPath : j \in 1..(k - 1)}

\* the URLs of the files stored before the k-th writeFileSync of the step
returnedBefore(k) ==
    {urlOfPath(p) : p \in DOMAIN files \cup {writes'[j].finalPath : j \in 1..(k - 1)}}

\* the k-th write of the step takes the sanitized name when it is free, else
\* the name with the least counter N >= 1 that is free
leastFreeName(k) ==
    LET w == writes'[k]
        ext == extname(w.safeFilename)
        base == sliceExt(w.safeFilename, ext)
        dir == parentOf(w.finalPath)
        name == pathBasename(w.finalPath)
    IN IF Append(dir, w.safeFilename) \notin heldBefore(k)
       THEN name = w.safeFilename
       ELSE \E N \in 1..(Cardinality(heldBefore(k)) + 1) :
               /\ name = base \o <<"_">> \o toString(N) \o ext
               /\ \A M \in 1..(N - 1) :
                      Append(dir, base \o <<"_">> \o toString(M) \o ext) \in heldBefore(k)

\* C1: in every step of the store, each saveFile call writes to a path that
\* did not exist before it and returns a URL that no file stored before it
\* has; the files stored before the step keep their bytes unless the step
\* deletes their session; the stored name is the sanitized name when that is
\* free, and otherwise `{base}_N{ext}` with N the least integer >= 1 whose
\* name is free.
SaveFileNeverCollides ==
    [][ /\ \A k \in 1..Len(writes') :
              /\ writes'[k].finalPath \notin heldBefore(k)
              /\ writes'[k].url \notin returnedBefore(k)
              /\ writes'[k].url = urlOfPath(writes'[k].finalPath)
              /\ writes'[k].finalPath \in DOMAIN files'
              /\ leastFreeName(k)
        /\ resp'.op # "delete" =>
              \A p \in DOMAIN files : p \in DOMAIN files' /\ files'[p] = files[p]
      ]_vars

\* an upload stored a.png as a_2.png, a.png and a_1.png being taken
StoredWithSecondSuffix ==
    /\ resp.op = "upload"
    /\ \E k \in 1..Len(writes) :
          /\ writes[k].safeFilename = name_a
          /\ pathBasename(writes[k].finalPath) =
                 <<"a", "_", "2", ".", "p", "n", "g">>

----------------------------------------------------------------------------
(* Properties of the orientation corrector *)

\* the physical rotation that corrects the detected angle d
physicalRotation(d) == IF d = 90 THEN 270 ELSE IF d = 180 THEN 180 ELSE 90

\* C2: after a detection of angle d, autoOrientImage requests from sharp the
\* rotation 270 for d = 90, 180 for d = 180 and 90 for d = 270, and none for
\* d = 0, where it returns the input bytes; sharp is asked for nothing else;
\* the rotated value it returns, and the one the orient endpoint reports, is d.
CorrectionInvertsDetection ==
    \A i \in 1..Len(calls) :
        /\ calls[i].fn = "detected" /\ calls[i].rotation = 0 =>
              /\ i < Len(calls)
              /\ calls[i + 1].fn = "oriented"
              /\ calls[i + 1].rotated = 0
              /\ calls[i + 1].data = calls[i + 1].input
        /\ calls[i].fn = "detected" /\ calls[i].rotation # 0 =>
              /\ i < Len(calls)
              /\ calls[i + 1].fn = "rotate"
              /\ calls[i + 1].degrees = physicalRotation(calls[i].rotation)
              /\ i + 1 < Len(calls) /\ calls[i + 2].fn = "oriented" =>
                    /\ calls[i + 2].rotated = calls[i].rotation
                    /\ calls[i + 2].data.rot =
                           (calls[i + 2].input.rot + calls[i + 1].degrees) % 360
        /\ calls[i].fn = "rotate" =>
              i > 1 /\ calls[i - 1].fn = "detected" /\ calls[i - 1].rotation # 0
        /\ calls[i].fn = "oriented" /\ resp.op = "orient" /\ resp.status = 200 =>
              resp.rotated = calls[i].rotated

\* an orient request detected 90 and had the image rotated by 270
Rotated270For90 ==
    /\ resp.op = "orient" /\ resp.status = 200 /\ resp.rotated = 90
    /\ \E i \in 1..Len(calls) : calls[i].fn = "rotate" /\ calls[i].degrees = 270

\* the source file of the orient request, as the handler resolves its imageUrl
orientSource == under(<<replace(resp.req.imageUrl, str_uploads, <<>>)>>)

\* the angle detected in the last request
detectedAngle == (CHOOSE i \in 1..Len(calls) : calls[i].fn = "detected")

\* name is `{base}_oriented{ext}` of the source name, or that with a counter
isOrientedNameOf(name, source) ==
    LET ext == extname(source)
        base == sliceExt(source, ext)
    IN \/ name = base \o str_oriented \o ext
       \/ \E N \in 1..(Cardinality(DOMAIN files) + 1) :
              name = base \o str_oriented \o <<"_">> \o toString(N) \o ext

\* C3: an orient request on an existing session with an imageUrl that
\* resolves to a stored image answers 200; when the detected angle is not 0
\* it has written exactly one file, named `{base}_oriented{ext}` up to the
\* counter of saveFile, in the folder of the source, and returns its URL with
\* rotated and originalUrl; when the angle is 0 it has written nothing and
\* returns the requested URL with rotated = 0.
OrientStoresOrientedName ==
    ( /\ resp.op = "orient"
      /\ resp.req.imageUrl # <<>>
      /\ under(<<resp.req.sessionId>>) \in dirs
      /\ orientSource \in DOMAIN files
      /\ files[orientSource].kind = "image" )
    => /\ resp.status = 200
       /\ \E i \in 1..Len(calls) : calls[i].fn = "detected"
       /\ IF calls[detectedAngle].rotation = 0
          THEN /\ writes = <<>>
               /\ resp.rotated = 0
               /\ resp.url = resp.req.imageUrl
          ELSE /\ Len(writes) = 1
               /\ parentOf(writes[1].finalPath) = parentOf(orientSource)
               /\ isOrientedNameOf(pathBasename(writes[1].finalPath),
                                   pathBasename(orientSource))
               /\ resp.url = writes[1].url
               /\ resp.originalUrl = resp.req.imageUrl
               /\ resp.rotated = calls[detectedAngle].rotation

\* C4: every value detectOrientation returns is 0, 90, 180 or 270; it is 0
\* when the key is unset (and then the model is not called), when the model
\* call throws, when the completion has no content, and when the trimmed
\* content does not start with the digits of 90, 180 or 270 and nothing but
\* those; a trimmed content of exactly "90", "180" or "270" is returned as
\* that number; every model call of the corrector is followed by the value
\* returned, so no error reaches the caller.
DetectionIsOneOfFour ==
    \A i \in 1..Len(calls) :
        /\ calls[i].fn = "detected" =>
              /\ calls[i].rotation \in {0, 90, 180, 270}
              /\ ~apiKey => calls[i].rotation = 0 /\ (i = 1 \/ calls[i - 1].fn # "model")
              /\ i > 1 /\ calls[i - 1].fn = "model" =>
                    LET reply == calls[i - 1].reply
                    IN /\ reply.kind \in {"throw", "null"} => calls[i].rotation = 0
                       /\ reply.kind = "text" =>
                             /\ reply.content = <<"9", "0">> => calls[i].rotation = 90
                             /\ reply.content = <<"1", "8", "0">> => calls[i].rotation = 180
                             /\ reply.content = <<"2", "7", "0">> => calls[i].rotation = 270
                             /\ reply.content \in
                                    {<<"4", "5">>, <<"u", "p">>, <<" ">>, <<"0">>,
                                     <<"-", "9", "0">>, <<"2", "7", "0", "0">>}
                                => calls[i].rotation = 0
        /\ calls[i].fn = "model" /\ resp.op \in {"orient", "orient-all"} =>
              i < Len(calls) /\ calls[i + 1].fn = "detected"

\* the model answered 45 and the detection returned 0
OutOfSetReplyGivesZero ==
    \E i \in 2..Len(calls) :
        /\ calls[i].fn = "detected" /\ calls[i].rotation = 0
        /\ calls[i - 1].fn = "model"
        /\ calls[i - 1].reply = Text(<<"4", "5">>)

----------------------------------------------------------------------------
(* Properties of the extraction engine *)

\* the tickets of the last response
ticketsOf ==
    IF resp.op = "extract" /\ resp.status = 200 THEN {resp.ticket}
    ELSE IF resp.op = "extract-batch" /\ resp.status = 200
    THEN {resp.tickets[i] : i \in 1..Len(resp.tickets)}
    ELSE {}

\* how many items of the sequence s carry the URL u
countOf(s, u) == Cardinality({i \in 1..Len(s) : s[i].imageUrl = u})

\* C5: an extract-batch request of n > 0 URLs answers 200, whatever items
\* fail; tickets and errors together have n entries, and each URL is named
\* by as many tickets and errors as the request names it.
BatchAnswersEveryUrl ==
    (resp.op = "extract-batch" /\ Len(resp.req.imageUrls) > 0) =>
        /\ resp.status = 200
        /\ Len(resp.tickets) + Len(resp.errors) = Len(resp.req.imageUrls)
        /\ \A i \in 1..Len(resp.req.imageUrls) :
              Cardinality({j \in 1..Len(resp.req.imageUrls) :
                              resp.req.imageUrls[j] = resp.req.imageUrls[i]})
                  = countOf(resp.tickets, resp.req.imageUrls[i])
                      + countOf(resp.errors, resp.req.imageUrls[i])

\* three URLs of which the second does not parse: two tickets, the second
\* of them for the third URL, and one error naming the second URL
SecondOfThreeFails ==
    /\ resp.op = "extract-batch" /\ resp.status = 200
    /\ Len(resp.req.imageUrls) = 3
    /\ Len(resp.tickets) = 2 /\ Len(resp.errors) = 1
    /\ resp.errors[1].error = "Failed to parse extraction results"
    /\ resp.req.imageUrls[3] = url_data
    /\ resp.tickets[2].imageUrl = url_data
    /\ resp.req.imageUrls[1] = url_a
    /\ resp.tickets[1].imageUrl = url_a

\* the text of the reply holds a block that decodes to a JSON object
yieldsObject(reply) ==
    /\ reply.kind = "text"
    /\ jsonMatch(reply.content) \in {<<"{", "}">>, <<"{", "m", "}">>}

\* C6: an extract request whose model reply holds no decodable JSON object
\* ends in an error and returns no ticket.
NoObjectIsAnError ==
    ( /\ resp.op = "extract"
      /\ Len(calls) = 1 /\ calls[1].fn = "model"
      /\ calls[1].reply.kind # "throw"
      /\ ~yieldsObject(calls[1].reply) )
    => resp.status = 500

ApiOps == {"extract", "extract-batch", "orient", "orient-all", "analyze"}

\* C7 as stated: without the API key each of the five endpoints answers a
\* request that is well formed with HTTP 500 and the configuration error.
EveryEndpointNeedsKey ==
    (~apiKey /\ resp.op \in ApiOps /\ resp.status \notin {400, 404}) =>
        /\ resp.status = 500
        /\ resp.error = "OPENROUTER_API_KEY not configured"

\* C7: without the API key, extract and analyze answer a request that names
\* an image with HTTP 500 and the configuration error, and do not call the
\* model; orient and orient-all call neither the model nor sharp, write no
\* file and never answer the configuration error: orient answers 200 with
\* rotated = 0 and the requested URL for every stored file, orient-all
\* answers 200 with rotated = 0 in every result for an existing session;
\* extract-batch tests no key: it answers every non-empty request with 200
\* and one ticket or error per URL.
KeylessEndpoints ==
    ~apiKey =>
        /\ resp.op = "extract" /\ resp.req.imageUrl # <<>> =>
              /\ resp.status = 500
              /\ resp.error = "OPENROUTER_API_KEY not configured"
              /\ calls = <<>>
        /\ resp.op = "analyze" /\ Len(resp.req.images) > 0 =>
              /\ resp.status = 500
              /\ resp.error = "OPENROUTER_API_KEY not configured"
              /\ calls = <<>>
        /\ resp.op \in {"orient", "orient-all"} =>
              /\ writes = <<>> /\ files = ApiFiles
              /\ \A i \in 1..Len(calls) : calls[i].fn \notin {"model", "rotate"}
              /\ resp.status # 200 => resp.error # "OPENROUTER_API_KEY not configured"
        /\ ( /\ resp.op = "orient"
             /\ resp.req.imageUrl # <<>>
             /\ under(<<resp.req.sessionId>>) \in dirs
             /\ orientSource \in DOMAIN files ) =>
              /\ resp.status = 200 /\ resp.rotated = 0
              /\ resp.url = resp.req.imageUrl
        /\ resp.op = "orient-all" /\ under(<<resp.req.sessionId>>) \in dirs =>
              /\ resp.status = 200
              /\ \A i \in 1..Len(resp.results) : resp.results[i].rotated = 0
        /\ resp.op = "extract-batch" /\ Len(resp.req.imageUrls) > 0 =>
              /\ resp.status = 200
              /\ Len(resp.tickets) + Len(resp.errors) = Len(resp.req.imageUrls)

\* without the key an orient request on a stored image reported no rotation
KeylessOrientReportsZero ==
    /\ ~apiKey
    /\ resp.op = "orient" /\ resp.status = 200 /\ resp.rotated = 0
    /\ resp.req.imageUrl = url_a
    /\ calls # <<>>

\* the fields of a ticket whose confidence is a number above 0
counted(t) ==
    {f \in DOMAIN t.fields : ~t.fields[f].confidence.nan /\ t.fields[f].confidence.n > 0}

RECURSIVE sumOver(_, _)
sumOver(t, S) ==
    IF S = {} THEN 0
    ELSE LET f == CHOOSE x \in S : TRUE
         IN t.fields[f].confidence.n + sumOver(t, S \ {f})

\* C8: the overallConfidence of every ticket of a response is 0 when no
\* field has a confidence above 0, and otherwise the integer nearest to the
\* mean of the confidences above 0, a half going up: with S their sum and n
\* their number, overallConfidence - 1/2 <= S / n < overallConfidence + 1/2.
OverallIsRoundedMean ==
    \A t \in ticketsOf :
        LET n == Cardinality(counted(t))
            S == sumOver(t, counted(t))
        IN IF n = 0 THEN t.overallConfidence = 0
           ELSE /\ 2 * n * t.overallConfidence - n <= 2 * S
                /\ 2 * S < 2 * n * t.overallConfidence + n

\* confidences 80, 0 and 60 gave 70
Mean80And60Is70 ==
    /\ resp.op = "extract" /\ resp.status = 200
    /\ resp.ticket.fields["ticketNumber"].confidence = Num(80)
    /\ resp.ticket.fields["date"].confidence = Num(0)
    /\ resp.ticket.fields["notes"].confidence = Num(60)
    /\ resp.ticket.overallConfidence = 70

\* C9: every ticket of a response is flagged when its overallConfidence is
\* below 80 and pending otherwise, so none is approved.
StatusFollowsOverall ==
    \A t \in ticketsOf :
        /\ t.status \in {"flagged", "pending"}
        /\ t.status = "flagged" <=> t.overallConfidence < 80

\* confidences 79 and 80 round to 80, and the ticket is pending
RoundedTo80IsPending ==
    /\ resp.op = "extract" /\ resp.status = 200
    /\ resp.ticket.overallConfidence = 80
    /\ resp.ticket.status = "pending"
    /\ resp.ticket.fields["ticketNumber"].confidence = Num(79)

----------------------------------------------------------------------------
(* Properties of the review *)

inReviewBand(field) ==
    ~field.confidence.nan /\ field.confidence.n > 0 /\ field.confidence.n < 80

\* every field of every ticket under review satisfies R
fieldsSatisfy(R(_)) ==
    \A i \in 1..Len(editedTickets) :
        \A f \in DOMAIN editedTickets[i].fields : R(editedTickets[i].fields[f])

needsReviewExact(field) == field.needsReview <=> inReviewBand(field)
needsReviewSound(field) == field.needsReview => inReviewBand(field)

\* C10 as stated: in every state of the review each field of each ticket
\* has needsReview true exactly when 0 < confidence < 80.
NeedsReviewIffInBand == fieldsSatisfy(needsReviewExact)

\* C10: the tickets the review starts from, as the extraction engine built
\* them, have needsReview true exactly when 0 < confidence < 80; every step
\* of the review keeps each field's confidence and either keeps its
\* needsReview or clears it, so in every state needsReview implies
\* 0 < confidence < 80, and not the converse.
NeedsReviewOnlyInBand ==
    /\ fieldsSatisfy(needsReviewExact)
    /\ [](fieldsSatisfy(needsReviewSound))
    /\ [][\A i \in 1..Len(editedTickets) :
            \A f \in DOMAIN editedTickets[i].fields :
                /\ editedTickets'[i].fields[f].confidence
                       = editedTickets[i].fields[f].confidence
                /\ editedTickets'[i].fields[f].needsReview
                       \in {editedTickets[i].fields[f].needsReview, FALSE}]_vars

\* a field of confidence 60 was edited: its needsReview is false
EditedFieldInBand ==
    \E i \in 1..Len(editedTickets) :
        /\ editedTickets[i].fields["ticketNumber"].confidence = Num(80)
        /\ editedTickets[i].fields["notes"].confidence = Num(60)
        /\ editedTickets[i].fields["notes"].value = "w"
        /\ ~editedTickets[i].fields["notes"].needsReview

----------------------------------------------------------------------------
(* Properties of the fields of a ticket *)

\* the tickets of the last response, of extract or of extract-batch
producedTickets ==
    IF resp.op = "extract" /\ resp.status = 200 THEN <<resp.ticket>>
    ELSE IF resp.op = "extract-batch" /\ resp.status = 200 THEN resp.tickets
    ELSE <<>>

\* C11: every ticket of a response has exactly the twenty ticket fields; a
\* field for which the decoded JSON has no key has the value "" and the
\* confidence 0; the confidence of every field is a number from 0 to 100.
TicketFieldsAreClamped ==
    \A i \in 1..Len(producedTickets) :
        LET fields == producedTickets[i].fields
        IN /\ DOMAIN fields = Range(TICKET_FIELDS)
           /\ Cardinality(DOMAIN fields) = 20
           /\ \A f \in DOMAIN fields \ ModelKeys :
                 fields[f].value = "" /\ fields[f].confidence = Num(0)
           /\ \A f \in DOMAIN fields :
                 /\ ~fields[f].confidence.nan
                 /\ fields[f].confidence.n \in 0..100

----------------------------------------------------------------------------
(* Properties of the upload handler *)

\* the image and PDF entries of what extractZip returns for an archive
storedEntries(buffer) ==
    SelectSeq(extractZip(buffer).files,
              LAMBDA e : isImage(e.mimeType) \/ e.mimeType = "application/pdf")

\* what an upload is to store for one file, in order: the subfolder, the name
\* handed to the store, the bytes, and the record reported, if any
planOfFile(file) ==
    IF isZip(file)
    THEN <<[subdir |-> str_originals, name |-> file.originalname,
            data |-> file.buffer, reported |-> FALSE, record |-> <<>>]>>
         \o [i \in 1..Len(storedEntries(file.buffer)) |->
               LET e == storedEntries(file.buffer)[i]
               IN [subdir |-> str_extracted, name |-> e.name, data |-> e.data,
                   reported |-> TRUE,
                   record |-> [name |-> e.name, mimeType |-> e.mimeType,
                               source |-> file.originalname]]]
    ELSE IF getMimeType(file.originalname) \in IMAGE_TYPES \cup {"application/pdf"}
    THEN <<[subdir |-> str_originals, name |-> file.originalname,
            data |-> file.buffer, reported |-> TRUE,
            record |-> [name |-> file.originalname,
                        mimeType |-> getMimeType(file.originalname)]]>>
    ELSE <<>>

RECURSIVE planOfUpload(_)
planOfUpload(reqFiles) ==
    IF reqFiles = <<>> THEN <<>>
    ELSE planOfFile(Head(reqFiles)) \o planOfUpload(Tail(reqFiles))

\* a record without its url
withoutUrl(r) == [k \in DOMAIN r \ {"url"} |-> r[k]]

\* the upload wrote what the plan says, in the plan's order, and no more
writesFollow(plan) ==
    /\ Len(writes) = Len(plan)
    /\ \A k \in 1..Len(plan) :
          /\ writes[k].sessionId = resp.req.sessionId
          /\ writes[k].subdir = plan[k].subdir
          /\ writes[k].safeFilename = sanitizeFilename(plan[k].name)
          /\ parentOf(writes[k].finalPath) =
                 under(<<resp.req.sessionId, plan[k].subdir>>)
          /\ files[writes[k].finalPath] = plan[k].data

\* the upload stored and reported what the plan says, in the plan's order
uploadFollows(plan) ==
    /\ writesFollow(plan)
    /\ LET reported == SelectSeq([k \in 1..Len(plan) |-> [k |-> k, p |-> plan[k]]],
                                 LAMBDA x : x.p.reported)
       IN /\ Len(resp.files) = Len(reported)
          /\ \A j \in 1..Len(reported) :
                /\ withoutUrl(resp.files[j]) = reported[j].p.record
                /\ resp.files[j].url = writes[reported[j].k].url

\* the upload request of the last response is for an existing session and
\* carries files, and every archive among them can be read
servedUpload ==
    /\ resp.op = "upload"
    /\ under(<<resp.req.sessionId>>) \in dirs
    /\ Len(resp.req.files) > 0

archivesReadable ==
    \A i \in 1..Len(resp.req.files) :
        isZip(resp.req.files[i]) => resp.req.files[i].buffer.kind = "zip"

firstMalformed ==
    Min({i \in 1..Len(resp.req.files) :
            isZip(resp.req.files[i]) /\ resp.req.files[i].buffer.kind # "zip"})

\* C15: extractZip fails as a whole on bytes that are no archive and returns
\* no entry; an upload to an existing session that carries such a file
\* answers 500 without a file list, and writes the files that precede it in
\* the request and nothing else: neither the archive nor an entry of it.
MalformedArchiveFailsUpload ==
    servedUpload /\ ~archivesReadable =>
        /\ extractZip(resp.req.files[firstMalformed].buffer) =
               [ok |-> FALSE, files |-> <<>>]
        /\ resp.status = 500
        /\ "files" \notin DOMAIN resp
        /\ writesFollow(planOfUpload(SubSeq(resp.req.files, 1, firstMalformed - 1)))

\* an upload of a.png and of b.zip, which is no archive, answered 500 and
\* wrote a.png alone
BrokenArchiveAfterImage ==
    /\ servedUpload /\ resp.status = 500
    /\ Len(resp.req.files) = 2
    /\ resp.req.files[1].originalname = name_a
    /\ resp.req.files[2].originalname = name_bad
    /\ Len(writes) = 1 /\ writes[1].safeFilename = name_a

\* a file the upload handler stores or unpacks
qualifies(file) ==
    \/ isZip(file)
    \/ getMimeType(file.originalname) \in IMAGE_TYPES \cup {"application/pdf"}

\* the files of the request that qualify, in the order of the request
qualifying(reqFiles) == SelectSeq(reqFiles, qualifies)

----------------------------------------------------------------------------
(* Properties of the archive extractor *)

\* the name has __MACOSX in it
hasMarker(name) ==
    \E i \in 1..Len(name) :
        i + 7 <= Len(name) /\ SubSeq(name, i, i + 7) = str_macosx

\* the entry is a file whose name neither starts with "." nor has the marker
isReturned(e) == ~e.dir /\ e.name # <<>> /\ e.name[1] # "." /\ ~hasMarker(e.name)

\* the entries of the archive that are returned, in the archive's order,
\* each as its last path segment, its bytes and the MIME type of its extension
RECURSIVE returnedOf(_)
returnedOf(entries) ==
    IF entries = <<>> THEN <<>>
    ELSE (IF isReturned(Head(entries))
          THEN <<[name |-> basename(Head(entries).name),
                  data |-> Head(entries).data,
                  mimeType |-> getMimeType(Head(entries).name)]>>
          ELSE <<>>) \o returnedOf(Tail(entries))

\* C17: for every archive an upload carries, extractZip returns exactly the
\* entries that are no directories and whose names neither start with "."
\* nor contain __MACOSX, in the order of the archive, each with the MIME type
\* of its extension.
ExtractReturnsVisibleEntries ==
    resp.op = "upload" =>
        \A i \in 1..Len(resp.req.files) :
            resp.req.files[i].buffer.kind = "zip" =>
                extractZip(resp.req.files[i].buffer) =
                    [ok |-> TRUE,
                     files |-> returnedOf(resp.req.files[i].buffer.entries)]

\* an upload carried the archive of a.png, .hidden and __MACOSX/b.txt, of
\* which extractZip returns a.png alone, and stored it
OnlyPngExtracted ==
    /\ resp.op = "upload" /\ resp.status = 200
    /\ Len(resp.req.files) = 1
    /\ resp.req.files[1].buffer = Archive(2, PlainEntries)
    /\ extractZip(resp.req.files[1].buffer).files =
           <<[name |-> name_a, data |-> Image(1), mimeType |-> "image/png"]>>
    /\ Len(writes) = 2 /\ writes[2].subdir = str_extracted
    /\ writes[2].safeFilename = name_a

----------------------------------------------------------------------------
(* Properties of the filename sanitizer *)

\* the names the last request hands to saveFile through sanitizeFilename
requestNames ==
    IF resp.op = "upload"
    THEN {resp.req.files[i].originalname : i \in 1..Len(resp.req.files)}
    ELSE IF resp.op = "converted" /\ resp.req.images.t = "array"
    THEN {resp.req.images.items[i].name.s :
             i \in {j \in 1..Len(resp.req.images.items) :
                       resp.req.images.items[j].name.t = "string"}}
    ELSE {}

\* C19: for every name a request carries, sanitizeFilename returns a string
\* of characters from [A-Za-z0-9._-] only, of at most 200 characters, without
\* path separator, and not empty unless the name is.
SanitizedNameIsSafe ==
    \A filename \in requestNames :
        LET safe == sanitizeFilename(filename)
        IN /\ \A i \in 1..Len(safe) : safe[i] \in SafeChars
           /\ Len(safe) <= 200
           /\ \A i \in 1..Len(safe) : safe[i] # slash
           /\ filename # <<>> => safe # <<>>

\* a converted request named "/" was stored under the empty name, which the
\* store made _1
SlashStoredAsCounter ==
    /\ resp.op = "converted" /\ resp.status = 200
    /\ Len(resp.req.images.items) = 1
    /\ resp.req.images.items[1].name = Str(<<"/">>)
    /\ Len(writes) = 1
    /\ writes[1].safeFilename = <<>>
    /\ pathBasename(writes[1].finalPath) = <<"_", "1">>

----------------------------------------------------------------------------
(* Properties of the life of a session *)

SessionOps == {"get", "upload", "converted", "orient", "orient-all", "delete"}

\* the session id of the request a response answers
requestedId(r) == IF r.op = "delete" THEN r.sessionId ELSE r.req.sessionId

\* the directory of the session the step's request names
requestedDir == under(<<requestedId(resp')>>)

\* the step serves a request for a session without directory: it answers
\* the status expected of it and changes nothing
absentSessionAnswers(expected(_)) ==
    resp'.op \in SessionOps /\ requestedDir \notin dirs =>
        /\ resp'.status = expected(resp')
        /\ files' = files /\ dirs' = dirs
        /\ writes' = <<>> /\ calls' = <<>>

\* the step deletes a session that has a directory: the directory and all
\* under it are gone, and nothing else is
deleteRemovesSession ==
    resp'.op = "delete" /\ requestedDir \in dirs =>
        /\ resp'.status = 200
        /\ dirs' = {p \in dirs : ~isPrefix(requestedDir, p)}
        /\ DOMAIN files' = {p \in DOMAIN files : ~isPrefix(requestedDir, p)}
        /\ \A p \in DOMAIN files' : files'[p] = files[p]

notFound(r) == 404

\* orient tests the imageUrl of the body before the session
notFoundOrBadRequest(r) ==
    IF r.op = "orient" /\ r.req.imageUrl = <<>> THEN 400 ELSE 404

\* C14 as stated: delete of a session without directory answers 404 and
\* changes nothing; a delete of a session with a directory removes the
\* directory and all its files; get, upload, converted, orient, orient-all
\* and delete for a session without directory all answer 404 and write
\* nothing.
AbsentSessionIsNotFound ==
    [][absentSessionAnswers(notFound) /\ deleteRemovesSession]_vars

\* C14, amended: as stated, but orient without an imageUrl answers 400, for
\* a session without directory as for any other.
AbsentSessionIsNotFoundOrBadRequest ==
    [][absentSessionAnswers(notFoundOrBadRequest) /\ deleteRemovesSession]_vars

\* a delete for a session without directory answered 404 while the other
\* session holds files
DeleteOfAbsentSessionIsNotFound ==
    /\ resp.op = "delete" /\ resp.status = 404
    /\ under(<<resp.sessionId>>) \notin dirs
    /\ DOMAIN files # {}

\* an entry of the body whose dataUrl has the form data:<mime>;base64,<payload>
wellFormed(image) == image.dataUrl.t = "string" /\ dataUrlMatch(image.dataUrl.s).ok

\* the request of the last response is a converted request with a list for
\* an existing session, whose valid entries have names
servedConverted ==
    /\ resp.op = "converted"
    /\ under(<<resp.req.sessionId>>) \in dirs
    /\ resp.req.images.t = "array"
    /\ \A i \in 1..Len(resp.req.images.items) :
          wellFormed(resp.req.images.items[i]) =>
              resp.req.images.items[i].name.t = "string"

\* the valid entries of the request were decoded, stored under converted/
\* and reported, in the order of the request, and nothing else was
validEntriesStored ==
    LET valid == SelectSeq(resp.req.images.items, wellFormed)
    IN /\ resp.status = 200
       /\ Len(writes) = Len(valid) /\ Len(resp.files) = Len(valid)
       /\ \A k \in 1..Len(valid) :
             /\ writes[k].subdir = str_converted
             /\ writes[k].safeFilename = sanitizeFilename(valid[k].name.s)
             /\ files[writes[k].finalPath] =
                    fromBase64(dataUrlMatch(valid[k].dataUrl.s).payload)
             /\ resp.files[k].url = writes[k].url
             /\ resp.files[k].mimeType = dataUrlMatch(valid[k].dataUrl.s).mimeType

\* C16: a converted request with a list of entries for an existing session
\* skips every entry whose dataUrl is not of the form
\* data:<mime>;base64,<payload>, a missing dataUrl and one that is no string
\* included, without aborting; every valid entry, before and after a
\* malformed one, is decoded, stored under converted/ and reported, in the
\* order of the request.
MalformedEntriesAreSkipped ==
    servedConverted => validEntriesStored

\* a converted request stored p.png, met an entry without dataUrl, and
\* answered 500 without storing the valid entry that follows
AbortedByMissingDataUrl ==
    /\ servedConverted /\ resp.status = 500
    /\ Len(resp.req.images.items) = 3
    /\ wellFormed(resp.req.images.items[1])
    /\ resp.req.images.items[2].dataUrl.t = "undefined"
    /\ wellFormed(resp.req.images.items[3])
    /\ Len(writes) = 1 /\ writes[1].safeFilename = name_p

----------------------------------------------------------------------------
(* Properties of orient-all *)

\* the request of the last response is an orient-all for an existing session
servedOrientAll ==
    resp.op = "orient-all" /\ under(<<resp.req.sessionId>>) \in dirs

\* the files the three subfolders of the session held when they were listed:
\* those they hold, less those the request wrote
listedFiles ==
    {p \in DOMAIN files \ {writes[k].finalPath : k \in 1..Len(writes)} :
        \E k \in 1..Len(Subdirs) : parentOf(p) = under(<<resp.req.sessionId, Subdirs[k]>>)}

\* the listed files that are images by their extension and whose names have
\* no _oriented in them
toOrient ==
    {p \in listedFiles : /\ getMimeType(pathBasename(p)) \in IMAGE_TYPES
                         /\ ~includes(pathBasename(p), str_oriented)}

callsTo(fn) == {i \in 1..Len(calls) : calls[i].fn = fn}

\* no detection, rotation or write is made for a listed file that is skipped:
\* each file handed to autoOrientImage and each file written stems from a
\* file to orient, and there are no more of them than files to orient
skippedAreUntouched ==
    /\ Cardinality(callsTo("detected")) <= Cardinality(toOrient)
    /\ Cardinality(callsTo("model")) <= Cardinality(callsTo("detected"))
    /\ Len(writes) <= Cardinality(callsTo("detected"))
    /\ \A i \in callsTo("oriented") : calls[i].input \in {files[p] : p \in toOrient}
    /\ \A k \in 1..Len(writes) :
          \E p \in toOrient :
              /\ parentOf(writes[k].finalPath) = parentOf(p)
              /\ writes[k].safeFilename =
                     sanitizeFilename(orientedName(pathBasename(p)))

\* every file to orient has exactly one entry in the results
oneResultEach ==
    /\ "results" \in DOMAIN resp
    /\ Len(resp.results) = Cardinality(toOrient)
    /\ Cardinality(callsTo("detected")) = Cardinality(toOrient)
    /\ \A p \in toOrient :
          Cardinality({j \in 1..Len(resp.results) :
                          resp.results[j].url = urlOfPath(p)}) = 1

\* C18 as stated: orient-all makes no detection call and writes no file for a
\* file whose name contains _oriented or whose extension is not that of an
\* image, and every other file of the three subfolders gets exactly one
\* result entry.
OrientAllGivesOneResultEach ==
    servedOrientAll => skippedAreUntouched /\ oneResultEach

\* C18, amended: the same for the skipped files; every other file gets
\* exactly one result entry when the request succeeds, and when a rotation
\* or a write throws the request answers 500 without results.
OrientAllSkipsOriented ==
    servedOrientAll =>
        /\ skippedAreUntouched
        /\ resp.status \in {200, 500}
        /\ resp.status = 200 => oneResultEach
        /\ resp.status = 500 => "results" \notin DOMAIN resp

\* an orient-all of the session that holds a.png, a_oriented.png and j.png
\* gave two results and wrote one file
TwoOfThreeOriented ==
    /\ servedOrientAll /\ resp.status = 200
    /\ Cardinality(listedFiles) = 3
    /\ \E p \in listedFiles : pathBasename(p) = name_oriented
    /\ Len(resp.results) = 2
    /\ Len(writes) = 1

----------------------------------------------------------------------------
(* Properties of the StoredFile records *)

\* the StoredFile records of the last response
storedFileRecords ==
    IF resp.op \in {"upload", "converted"} /\ resp.status = 200 THEN Range(resp.files)
    ELSE IF resp.op = "get" /\ resp.status = 200
    THEN UNION {Range(resp.files[k]) : k \in 1..Len(Subdirs)}
    ELSE {}

\* the characters of s after its last "/"
lastSegment(s) ==
    LET at == {i \in 1..Len(s) : s[i] = slash}
    IN IF at = {} THEN s ELSE SubSeq(s, Max(at) + 1, Len(s))

\* C20: every StoredFile record that upload, converted and get return has
\* as name the name of the file on disk, which is the last segment of the
\* record's url, and the url is that of a stored file.
RecordNameIsNameOnDisk ==
    \A r \in storedFileRecords :
        /\ r.name = lastSegment(r.url)
        /\ \E p \in DOMAIN files : urlOfPath(p) = r.url /\ pathBasename(p) = r.name

\* an upload of "d/a 1.png" reported that name for the file stored as a_1.png
UnsafeNameReported ==
    /\ resp.op = "upload" /\ resp.status = 200
    /\ Len(resp.files) = 1
    /\ resp.files[1].name = name_a1
    /\ lastSegment(resp.files[1].url) = <<"a", "_", "1", ".", "p", "n", "g">>

----------------------------------------------------------------------------
(* Properties of the session identifiers *)

\* the session directories: the direct children of the upload root
sessionDirs == {d \in dirs : Len(d) = Len(UploadRoot) + 1 /\ isPrefix(UploadRoot, d)}

\* C21: any two create calls answer different sessionIds, so that create never
\* answers the sessionId of a session that exists and there is one directory
\* for each session created
SessionIdsAreUnique ==
    /\ \A i, j \in 1..Len(created) : i # j => created[i] # created[j]
    /\ Cardinality(sessionDirs) = Len(created)

\* two sessions created in one second with the same random bytes: one
\* sessionId answered twice, one directory for both
SameSecondSameSuffix ==
    /\ Len(created) = 2
    /\ created[1] = created[2]
    /\ created[1] = <<"1", "9", "7", "0", "-", "0", "1", "-", "0", "1", "_",
                      "0", "0", "-", "0", "0", "-", "0", "1", "_",
                      "a", "b", "c", "d", "0", "0", "0", "1">>
    /\ sessionDirs = {under(<<created[1]>>)}

----------------------------------------------------------------------------
(* Properties of the upload handlers in flight *)

\* the writes of all the handlers: <<handler, position>>
handlerWrites ==
    {<<n, k>> \in (1..Len(handlers)) \X (1..(MaxRequests * 4)) :
        k <= Len(handlers[n].writes)}

writeOf(w) == handlers[w[1]].writes[w[2]]

\* two handlers that were in flight together and have stored the same name
\* into the same subdir
racing(m, n) ==
    /\ m \in handlers[n].during
    /\ \E v \in 1..Len(handlers[m].writes), w \in 1..Len(handlers[n].writes) :
          /\ handlers[m].writes[v].safeFilename = handlers[n].writes[w].safeFilename
          /\ handlers[m].writes[v].subdir = handlers[n].writes[w].subdir
          /\ handlers[m].writes[v].sessionId = handlers[n].writes[w].sessionId

----------------------------------------------------------------------------
(* Properties of the loops of extract-batch and orient-all *)

\* what the first n items of extract-batch give one by one, in input order
RECURSIVE ticketsInOrder(_, _)
ticketsInOrder(items, n) ==
    IF n = 0 THEN [tickets |-> <<>>, errors |-> <<>>]
    ELSE LET before == ticketsInOrder(items, n - 1)
             alone == batchOne(dirs, files,
                               [tickets |-> <<>>, errors |-> <<>>, calls |-> <<>>],
                               items[n])
         IN [tickets |-> before.tickets \o alone.tickets,
             errors |-> before.errors \o alone.errors]

\* the URLs of the first n files of orient-all that are images and carry no
\* `_oriented`, in the order of enumeration
RECURSIVE urlsInOrder(_, _)
urlsInOrder(items, n) ==
    IF n = 0 THEN <<>>
    ELSE urlsInOrder(items, n - 1) \o
            (IF isImage(getMimeType(items[n].filename))
                    /\ ~includes(items[n].filename, str_oriented)
             THEN <<url(items[n].sessionId, items[n].subdir, items[n].filename)>>
             ELSE <<>>)

\* the items of the loop that have completed with a ticket, an error or a result
completed == IF goesOn(loop.op, loop.acc) THEN loop.done ELSE loop.done - 1

\* C23: at most one model call of the request is in flight, it is that of the
\* item after the last completed one, and the lists of tickets, of errors and
\* of results hold what the completed items gave, in the order of the items
LoopsRunOneAtATime ==
    loop.op # "none" =>
        /\ Cardinality(loop.inflight) <= 1
        /\ \A k \in loop.inflight : loop.done = k - 1
        /\ loop.inflight = {} /\ goesOn(loop.op, loop.acc) => loop.done = Len(loop.items)
        /\ loop.op = "extract-batch" =>
              /\ loop.acc.tickets = ticketsInOrder(loop.items, completed).tickets
              /\ loop.acc.errors = ticketsInOrder(loop.items, completed).errors
              /\ loop.inflight = {} =>
                    resp.tickets = loop.acc.tickets /\ resp.errors = loop.acc.errors
        /\ loop.op = "orient-all" =>
              /\ [i \in 1..Len(loop.acc.results) |-> loop.acc.results[i].url]
                    = urlsInOrder(loop.items, completed)
              /\ loop.inflight = {} /\ loop.acc.ok => resp.results = loop.acc.results

\* a batch of three: the call of the third is in flight, the first has given
\* a ticket and the second an error
ThirdCallAfterTwoCompleted ==
    /\ loop.op = "extract-batch"
    /\ Len(loop.items) = 3
    /\ loop.inflight = {3}
    /\ Len(loop.acc.tickets) = 1 /\ Len(loop.acc.errors) = 1
    /\ loop.acc.tickets[1].imageUrl = loop.items[1].imageUrl
    /\ loop.acc.errors[1].imageUrl = loop.items[2].imageUrl
    /\ Len(loop.acc.calls) = 2

----------------------------------------------------------------------------
(* Properties of the failure of orient-all *)

\* the calls of the last request to the function fn
callsOf(fn) == {i \in 1..Len(calls) : calls[i].fn = fn}

\* an orient-all request that has thrown
orientAllThrew == loop.op = "orient-all" /\ ~loop.acc.ok

\* C24: when the processing of a file throws, orient-all answers 500 with an
\* error and no results, processes no file after it, and leaves the oriented
\* files it has written before it in the session
OrientAllAbortsWithoutRollback ==
    orientAllThrew =>
        /\ resp.op = "orient-all" /\ resp.status = 500
        /\ DOMAIN resp = {"op", "status", "req", "error"}
        /\ loop.inflight = {}
        /\ Cardinality(callsOf("detected"))
              = Len(urlsInOrder(loop.items, loop.done))
        /\ Cardinality(callsOf("oriented")) = Len(loop.acc.results)
        /\ [i \in 1..Len(loop.acc.results) |-> loop.acc.results[i].url]
              = urlsInOrder(loop.items, loop.done - 1)
        /\ \A i \in 1..Len(writes) :
              /\ writes[i].finalPath \in DOMAIN files \ DOMAIN LoopFiles
              /\ \E r \in Range(loop.acc.results) :
                    r.rotated # 0 /\ r.newUrl = writes[i].url
        /\ \A p \in DOMAIN LoopFiles : p \in DOMAIN files /\ files[p] = LoopFiles[p]
        /\ Cardinality(DOMAIN files) = Cardinality(DOMAIN LoopFiles) + Len(writes)

\* a.png is oriented and written, j.png throws in sharp, p.png is not
\* processed: the answer is 500 and a_oriented_1.png stays
ThrownAfterOneWritten ==
    /\ orientAllThrew
    /\ loop.done = 2 /\ Len(loop.items) = 4
    /\ loop.items[1].filename = name_a
    /\ loop.items[2].filename = name_junk
    /\ loop.items[3].filename = name_p
    /\ Len(writes) = 1
    /\ pathBasename(writes[1].finalPath)
          = <<"a">> \o str_oriented \o <<"_", "1", ".", "p", "n", "g">>
    /\ writes[1].finalPath \in DOMAIN files
    /\ resp.status = 500

----------------------------------------------------------------------------
(* Properties of the paths the handlers touch *)

\* a path strictly inside the upload root
inside(p) == isPrefix(UploadRoot, p) /\ Len(p) > Len(UploadRoot)

\* C25: whatever :sessionId and file names the requests carry, every write
\* goes to a path strictly inside the upload root, and delete removes a
\* direct child of the upload root and nothing else: the root stays
PathsAreConfined ==
    /\ \A i \in 1..Len(writes) : inside(writes[i].finalPath)
    /\ \A p \in DOMAIN files : inside(p)
    /\ UploadRoot \in dirs
    /\ (resp.op = "delete" /\ resp.status = 200)
          => /\ inside(under(<<resp.sessionId>>))
             /\ Len(under(<<resp.sessionId>>)) = Len(UploadRoot) + 1

\* DELETE /api/sessions/%2E%2E: the answer is 200 and the upload root is gone
\* with all the sessions and their files
DeleteOfParentRemovesRoot ==
    /\ resp.op = "delete" /\ resp.status = 200
    /\ resp.sessionId = str_dotdot
    /\ UploadRoot \notin dirs
    /\ \A d \in dirs : ~isPrefix(UploadRoot, d)
    /\ files = <<>>

----------------------------------------------------------------------------
(* Properties of the failure of upload *)

\* the URLs a get response lists
listedUrls(r) ==
    {r.files[k][i].url : <<k, i>> \in
        {<<k, i>> \in (1..Len(Subdirs)) \X (1..MaxFiles) : i <= Len(r.files[k])}}

\* an upload to an existing session that has thrown
uploadThrew == servedUpload /\ resp.status = 500

\* C26: an upload that fails at its k-th file answers 500 with no file list;
\* the files it has written for the files before the k-th are stored, and a
\* get of the session that follows lists them
FailedUploadKeepsEarlierFiles ==
    [][uploadThrew =>
          /\ "files" \notin DOMAIN resp
          /\ \A i \in 1..Len(writes) :
                /\ writes[i].finalPath \in DOMAIN files
                /\ (resp'.op = "get" /\ resp'.req.sessionId = resp.req.sessionId)
                      => resp'.status = 200 /\ writes[i].url \in listedUrls(resp')
          /\ writesFollow(planOfUpload(SubSeq(resp.req.files, 1, firstMalformed - 1)))]_vars

\* the upload of a.png and of b.zip, which is no archive, has answered 500:
\* a.png is stored and get lists it
FailedUploadLeftImage ==
    /\ uploadThrew
    /\ Len(resp.req.files) = 2 /\ firstMalformed = 2
    /\ Len(writes) = 1
    /\ writes[1].finalPath \in DOMAIN files
    /\ \E l \in readdirSync(files, under(<<resp.req.sessionId, Subdirs[1]>>)) :
          writes[1].url \in
              listedUrls(getSession(dirs, files, [sessionId |-> resp.req.sessionId],
                                    <<l, <<>>, <<>>>>).resp)

----------------------------------------------------------------------------
(* Properties of the stored files *)

\* the stored file an image URL of the orient request names
sourceOf(r) == under(<<replace(r.req.imageUrl, str_uploads, <<>>)>>)

\* C27: a step that is no delete leaves every stored file in place with its
\* bytes and adds one file for each write; an orient or orient-all that has
\* rotated writes the new file next to its source, under the name saveFile
\* makes of the `_oriented` name, and the source keeps its bytes
OnlyDeleteRemovesFiles ==
    [][resp'.op # "delete" =>
          /\ \A p \in DOMAIN files : p \in DOMAIN files' /\ files'[p] = files[p]
          /\ DOMAIN files' \ DOMAIN files = {writes'[i].finalPath : i \in 1..Len(writes')}
          /\ Cardinality(DOMAIN files') = Cardinality(DOMAIN files) + Len(writes')
          /\ (resp'.op = "orient" /\ resp'.status = 200 /\ resp'.rotated # 0) =>
                /\ sourceOf(resp') \in DOMAIN files
                /\ files'[sourceOf(resp')] = files[sourceOf(resp')]
                /\ parentOf(writes'[1].finalPath) = parentOf(sourceOf(resp'))
                /\ writes'[1].safeFilename
                      = sanitizeFilename(orientedName(pathBasename(sourceOf(resp'))))
                /\ files'[writes'[1].finalPath].rot # files[sourceOf(resp')].rot
          /\ (resp'.op = "orient-all" /\ resp'.status = 200) =>
                \A i \in 1..Len(resp'.results) :
                    LET r == resp'.results[i]
                        src == under(<<replace(r.url, str_uploads, <<>>)>>)
                    IN /\ src \in DOMAIN files /\ files'[src] = files[src]
                       /\ r.rotated # 0 =>
                             LET new == under(<<replace(r.newUrl, str_uploads, <<>>)>>)
                             IN /\ new \in DOMAIN files' \ DOMAIN files
                                /\ parentOf(new) = parentOf(src)]_vars

\* a.png has been oriented: it is stored as uploaded, a_oriented.png is
\* stored next to it with the rotated bytes
OrientedNextToSource ==
    /\ resp.op = "orient" /\ resp.status = 200 /\ resp.rotated = 90
    /\ pathBasename(sourceOf(resp)) = name_a
    /\ files[sourceOf(resp)] = Image(1)
    /\ Len(writes) = 1
    /\ pathBasename(writes[1].finalPath) = name_oriented
    /\ parentOf(writes[1].finalPath) = parentOf(sourceOf(resp))
    /\ files[writes[1].finalPath] = [Image(1) EXCEPT !.rot = 270]

----------------------------------------------------------------------------
(* Properties of repeated orient-all *)

\* the stored copies of the original p that orient-all has written: the
\* files next to p whose name opens with the name of p without its
\* extension followed by `_oriented`
copiesOf(F, p) ==
    {q \in DOMAIN F :
        /\ parentOf(q) = parentOf(p)
        /\ startsWith(pathBasename(q),
                      sliceExt(pathBasename(p), extname(pathBasename(p)))
                          \o str_oriented)}

\* the name of the next copy of p: x_oriented.ext, then x_oriented_1.ext, ...
nextCopy(F, p) ==
    LET name == pathBasename(p)
        stem == sliceExt(name, extname(name)) \o str_oriented
    IN IF copiesOf(F, p) = {} THEN stem \o extname(name)
       ELSE suffixed(stem, Cardinality(copiesOf(F, p)), extname(name))

\* the results of orient-all for the original p
resultsFor(r, p) == {i \in 1..Len(r.results) : r.results[i].url = urlOfPath(p)}

\* C28: every run of orient-all submits each original image to detection
\* again and skips the copies written before; for each original with a
\* detected angle other than 0 it writes one more copy, x_oriented.ext the
\* first time and x_oriented_n.ext the n+1-th, so that the session grows by
\* one file for each such image and run
OrientAllWritesAnotherCopy ==
    [][(resp'.op = "orient-all" /\ resp'.status = 200) =>
          /\ Len(resp'.results) = Cardinality(RepeatOriginals)
          /\ Cardinality({i \in 1..Len(calls') : calls'[i].fn = "detected"})
                = Cardinality(RepeatOriginals)
          /\ \A p \in RepeatOriginals :
                \E i \in resultsFor(resp', p) :
                    /\ resultsFor(resp', p) = {i}
                    /\ resp'.results[i].rotated # 0 =>
                          /\ resp'.results[i].newUrl
                                = urlOfPath(Append(parentOf(p), nextCopy(files, p)))
                          /\ copiesOf(files', p)
                                = copiesOf(files, p)
                                      \cup {Append(parentOf(p), nextCopy(files, p))}
                    /\ resp'.results[i].rotated = 0 =>
                          copiesOf(files', p) = copiesOf(files, p)
          /\ Cardinality(DOMAIN files')
                = Cardinality(DOMAIN files)
                    + Cardinality({i \in 1..Len(resp'.results) :
                                      resp'.results[i].rotated # 0})]_vars

\* the second run on a.png with a detected angle: a_oriented_1.png is written
\* next to a.png and a_oriented.png, and p.png has no copy
SecondRunWroteSecondCopy ==
    /\ resp.op = "orient-all" /\ resp.status = 200
    /\ Cardinality(DOMAIN files) = 4
    /\ \E p \in RepeatOriginals :
          /\ pathBasename(p) = name_a
          /\ {pathBasename(q) : q \in copiesOf(files, p)}
                = {name_oriented,
                   <<"a">> \o str_oriented \o <<"_", "1", ".", "p", "n", "g">>}
          /\ \E i \in resultsFor(resp, p) :
                /\ resp.results[i].rotated # 0
                /\ resp.results[i].newUrl =
                      url(<<"s", "1">>, str_originals,
                          <<"a">> \o str_oriented \o <<"_", "1", ".", "p", "n", "g">>)
    /\ Len(writes) = 1

----------------------------------------------------------------------------
(* Properties of the FileUpload component *)

\* the entry of the file with URL u is shown as converting
converting(u) ==
    \E i \in 1..Len(uploadedFiles) :
        uploadedFiles[i].url = u /\ uploadedFiles[i].isConverting

\* C29: every entry that is converting ceases to be, whether its conversion
\* and the saving of its pages succeed, fail or give no page
ConvertingEventuallyEnds ==
    \A u \in 1..MaxServed : converting(u) ~> ~converting(u)

\* the conversion of a PDF has settled with no page or has failed: no
\* promise is left for the entry, which is converting for ever
StuckConverting ==
    \E i \in 1..Len(uploadedFiles) :
        /\ uploadedFiles[i].mimeType = str_pdf
        /\ uploadedFiles[i].isConverting
        /\ \A p \in promises : p.url # uploadedFiles[i].url

\* C30: the analysis an entry shows is that of its own images, and an entry
\* is analyzing only while a request for its own images is in flight
AnalysisStaysOnItsEntry ==
    \A i \in 1..Len(uploadedFiles) :
        /\ \A k \in 1..Len(uploadedFiles[i].analysis) :
              uploadedFiles[i].analysis[k].file = uploadedFiles[i].url
        /\ uploadedFiles[i].isAnalyzing =>
              \E p \in promises :
                  /\ p.kind = "analyze"
                  /\ p.imageUrls = getImageUrls(uploadedFiles[i])

\* three images; the analysis of the second was in flight when the first was
\* removed: it is recorded on the third, now at index 2, and the second, now
\* at index 1, is analyzing for ever
AnalysisOnAnotherEntry ==
    /\ Len(uploadedFiles) = 2
    /\ uploadedFiles[1].url = 2 /\ uploadedFiles[2].url = 3
    /\ uploadedFiles[1].isAnalyzing /\ uploadedFiles[1].analysis = <<>>
    /\ uploadedFiles[2].analysis = <<ImageUrl(2, 0)>>
    /\ promises = {}

====
